---- MODULE Spec2Model ----
(***************************************************************************)
(* Jmac Visualizer backend: the scanner (scanner.py), its result cache,    *)
(* the robust deletion routines and the /api/scan, /api/delete handlers    *)
(* (routes.py), and the SSE event queue fed by the watcher (watcher.py).   *)
(*                                                                         *)
(* Text is modelled as token sequences: a file name is a sequence of       *)
(* string tokens ("a 1.txt" is <<"a", " ", "1", ".txt">>) and a path is    *)
(* the sequence of its component names ("/" is the empty sequence), so     *)
(* that splitext, the f-strings of get_safe_dest and os.path.join are      *)
(* computed, not assumed.                                                  *)
(***************************************************************************)
EXTENDS Integers, Sequences, FiniteSets, TLC

VARIABLES fs,        \* the filesystem: existing path -> [kind, blocks, locked, readable, statable]
          cache,     \* scanner._SCAN_CACHE: cache key -> <<timestamp, data>>
          now,       \* time.time(), in whole seconds
          queue,     \* watcher.SSE_QUEUE, oldest message first
          resp,      \* the reply to the latest request
          reqNo,     \* number of requests served so far
          scanLog,   \* number of "Scanning:" lines written by level-0 _scan calls
          pc,        \* request thread -> where it is inside scan_directory
          streams,   \* /api/events client -> the records its stream has yielded
          getAt,     \* /api/events client -> when its stream last began to wait
          event,     \* the latest event the observer handed to _ChangeHandler
          pool       \* _POOL: its work queue, its workers, the tasks that ended

vars == <<fs, cache, now, queue, resp, reqNo, scanLog, pc, streams, getAt, event, pool>>

----------------------------------------------------------------------------
(* Bounds of the model *)

MaxRequests == 3     \* requests served in Spec
MaxDeletes == 2      \* requests served in SpecNotify and SpecDelete
MaxQueue == 2        \* stands for the capacity of SSE_QUEUE (maxsize=500)
MaxClock == 240      \* the clock stops here

----------------------------------------------------------------------------
(* Names and paths *)

\* every token a name of the model is built from, in listing order
Tokens == <<"/", ".DS_Store", ".Trash", "Messages", "Users", "tmp", "me",
            "a", "b", "c", "d", "e", "f", "g", "s", "t", "zz",
            " ", "-", "0", "1", "2", "3", "4", "5", "6", "7", "8", "9",
            ".", "..", ".txt", ".TXT", "_",
            "System", "Library", "Applications", "usr", "bin", "sbin", "etc",
            "var", "private", "Caches", "Logs", "node_modules", "__pycache__",
            ".git", "Documents", "Developer", "x", ".zip", "l">>

TokRank(t) == CHOOSE i \in 1..Len(Tokens) : Tokens[i] = t

\* the order in which a directory lists two names
RECURSIVE NameLeq(_, _)
NameLeq(a, b) ==
    IF a = <<>> THEN TRUE
    ELSE IF b = <<>> THEN FALSE
    ELSE IF TokRank(a[1]) < TokRank(b[1]) THEN TRUE
    ELSE IF TokRank(a[1]) > TokRank(b[1]) THEN FALSE
    ELSE NameLeq(Tail(a), Tail(b))

ExtTokens == {".txt", ".TXT", ".zip"}

\* str.lower() on an extension
lower(t) == IF t = ".TXT" THEN ".txt" ELSE t

Front(s) == SubSeq(s, 1, Len(s) - 1)
Last(s) == s[Len(s)]

\* os.path.splitext on a file name: <<name_base, ext>>
splitext(n) ==
    IF Len(n) > 1 /\ Last(n) \in ExtTokens
    THEN <<Front(n), <<Last(n)>>>>
    ELSE <<n, <<>>>>

\* str(k): the decimal digits of an integer, one token per character
RECURSIVE Digits(_)
Digits(k) ==
    LET d == <<"0", "1", "2", "3", "4", "5", "6", "7", "8", "9">>[(k % 10) + 1]
    IN IF k < 10 THEN <<d>> ELSE Append(Digits(k \div 10), d)

str(k) == IF k < 0 THEN <<"-">> \o Digits(0 - k) ELSE Digits(k)

Root == <<>>
dirname(p) == IF p = Root THEN Root ELSE Front(p)
basename(p) == IF p = Root THEN <<>> ELSE Last(p)
join(p, n) == Append(p, n)

\* os.path.abspath of an absolute path: "." dropped, ".." pops a component
RECURSIVE normpath(_, _)
normpath(done, rest) ==
    IF rest = <<>> THEN done
    ELSE IF rest[1] = <<".">> THEN normpath(done, Tail(rest))
    ELSE IF rest[1] = <<"..">> THEN normpath(dirname(done), Tail(rest))
    ELSE normpath(Append(done, rest[1]), Tail(rest))

abspath(p) == normpath(<<>>, p)

IsPrefix(p, q) == Len(p) <= Len(q) /\ SubSeq(q, 1, Len(p)) = p

Home == << <<"Users">>, <<"me">> >>
TrashDir == join(Home, <<".Trash">>)

----------------------------------------------------------------------------
(* The filesystem, as the os / shutil calls of the program see it *)

exists(f, p) == p \in DOMAIN f
\* os.path.isdir answering like os.path.exists
isdir_like_exists(f, p) == p \in DOMAIN f

isdir(f, p) == p \in DOMAIN f /\ f[p].kind = "dir"
ChildrenOf(f, p) == {q \in DOMAIN f : Len(q) = Len(p) + 1 /\ IsPrefix(p, q)}
Subtree(f, p) == {q \in DOMAIN f : IsPrefix(p, q)}
Restrict(f, S) == [q \in S |-> f[q]]

\* the members of a set of paths, in directory-listing order
RECURSIVE InOrder(_)
InOrder(S) ==
    IF S = {} THEN <<>>
    ELSE LET m == CHOOSE x \in S : \A y \in S : NameLeq(Last(x), Last(y))
         IN <<m>> \o InOrder(S \ {m})

\* os.scandir(p) as a list of paths
scandir(f, p) == InOrder(ChildrenOf(f, p))

\* os.rmdir: succeeds on an empty directory that is not protected
rmdir(f, p) ==
    IF isdir(f, p) /\ ChildrenOf(f, p) = {} /\ ~f[p].locked
    THEN [ok |-> TRUE, fs |-> Restrict(f, DOMAIN f \ {p})]
    ELSE [ok |-> FALSE, fs |-> f]

\* an entry can be created in directory p (a directory the process may not
\* write to carries writable |-> FALSE)
writable(f, p) == "writable" \notin DOMAIN f[p] \/ f[p].writable

\* os.makedirs(p, exist_ok=True): creates p and its missing ancestors
makedirs(f, p) ==
    LET anc == {SubSeq(p, 1, i) : i \in 0..Len(p)}
        missing == {q \in anc : q \notin DOMAIN f}
    IN IF \/ \E q \in anc : q \in DOMAIN f /\ f[q].kind # "dir"
          \/ \E q \in missing : dirname(q) \in DOMAIN f /\ ~writable(f, dirname(q))
       THEN [ok |-> FALSE, fs |-> f]
       ELSE [ok |-> TRUE,
             fs |-> [q \in DOMAIN f \cup anc |->
                       IF q \in DOMAIN f THEN f[q]
                       ELSE [kind |-> "dir", blocks |-> 0, locked |-> FALSE,
                             readable |-> TRUE, statable |-> TRUE]]]

\* shutil.move(src, dst): the whole subtree is renamed, or the call raises
\* and nothing has moved.  An existing directory dst receives src under its
\* own name; an existing file dst is replaced by a file src (os.rename).
shutil_move(f, src, dst) ==
    LET real_dst == IF isdir(f, dst) THEN join(dst, basename(src)) ELSE dst
    IN IF /\ exists(f, src)
          /\ isdir(f, dirname(real_dst))
          /\ writable(f, dirname(real_dst))
          /\ ~IsPrefix(src, real_dst)
          /\ ~(isdir(f, dst) /\ exists(f, real_dst))
          /\ exists(f, real_dst) => f[src].kind # "dir"
          /\ \A q \in Subtree(f, src) : ~f[q].locked
       THEN LET moved == Subtree(f, src)
                reloc(q) == real_dst \o SubSeq(q, Len(src) + 1, Len(q))
                kept == (DOMAIN f \ moved) \ {real_dst}
                new == {reloc(q) : q \in moved}
            IN [ok |-> TRUE,
                fs |-> [q \in kept \cup new |->
                          IF q \in kept THEN f[q]
                          ELSE f[CHOOSE o \in moved : reloc(o) = q]]]
       ELSE [ok |-> FALSE, fs |-> f]

\* /bin/rm -rf target: removes every file it may unlink and every directory
\* it can read and empty; a directory it cannot read is left where it is
RECURSIVE rm_rf(_, _)
RECURSIVE rm_rf_all(_, _)
rm_rf_all(f, ps) ==
    IF ps = <<>> THEN f ELSE rm_rf_all(rm_rf(f, ps[1]), Tail(ps))

rm_rf(f, p) ==
    IF ~exists(f, p) THEN f
    ELSE IF f[p].kind # "dir"
         THEN IF f[p].locked THEN f ELSE Restrict(f, DOMAIN f \ {p})
    ELSE IF ~f[p].readable THEN f
    ELSE rmdir(rm_rf_all(f, scandir(f, p)), p).fs

----------------------------------------------------------------------------
(* routes.py: permanent deletion *)

\* the os.walk(target, topdown=False) loop of _rm_robust, from dirpath down:
\* a directory that cannot be listed yields nothing (os.walk ignores the error)
RECURSIVE rm_walk(_, _, _)
RECURSIVE rm_walk_subdirs(_, _, _)
RECURSIVE rm_walk_rmdirs(_, _, _)

rm_walk_subdirs(f, ds, sk) ==
    IF ds = <<>> THEN [fs |-> f, skipped_paths |-> sk]
    ELSE LET r == rm_walk(f, ds[1], sk)
         IN rm_walk_subdirs(r.fs, Tail(ds), r.skipped_paths)

rm_walk_rmdirs(f, ds, sk) ==
    IF ds = <<>> THEN [fs |-> f, skipped_paths |-> sk]
    ELSE LET r == rmdir(f, ds[1])
         IN rm_walk_rmdirs(r.fs, Tail(ds),
                           IF r.ok THEN sk ELSE Append(sk, ds[1]))

rm_walk(f, dirpath, sk) ==
    IF ~f[dirpath].readable THEN [fs |-> f, skipped_paths |-> sk]
    ELSE LET entries == scandir(f, dirpath)
             dirnames == SelectSeq(entries, LAMBDA q : f[q].kind = "dir")
             filenames == SelectSeq(entries, LAMBDA q : f[q].kind # "dir")
             sub == rm_walk_subdirs(f, dirnames, sk)
         IN rm_walk_rmdirs(sub.fs, dirnames, sub.skipped_paths \o filenames)

\* the removal calls the fallback of _rm_robust issues on what /bin/rm left
\* in f: os.rmdir for every directory the walk names and for the target;
\* the files the walk names are appended to skipped_paths with no call
RECURSIVE rm_walk_calls(_, _)
rm_walk_calls(f, dirpath) ==
    IF ~f[dirpath].readable THEN {}
    ELSE LET dirnames == {q \in ChildrenOf(f, dirpath) : f[q].kind = "dir"}
         IN UNION {rm_walk_calls(f, d) : d \in dirnames}
            \cup {[fn |-> "os.rmdir", path |-> d] : d \in dirnames}

_rm_robust_calls(f, target) ==
    rm_walk_calls(f, target) \cup {[fn |-> "os.rmdir", path |-> target]}

\* _rm_robust with "skipped_paths = []" moved out of the try block
_rm_robust_forgets_target(f, target0) ==
    LET target == abspath(target0)
        f1 == rm_rf(f, target)
    IN IF ~exists(f1, target)
       THEN [fs |-> f1, raised |-> FALSE, deleted_count |-> 1, skipped_paths |-> <<>>]
       ELSE IF ~isdir(f1, target)
       THEN [fs |-> f1, raised |-> FALSE, deleted_count |-> 0,
             skipped_paths |-> <<target>>]
       ELSE LET w == rm_walk(f1, target, <<>>)
                r == rmdir(w.fs, target)
            IN [fs |-> r.fs, raised |-> FALSE, deleted_count |-> 1,
                skipped_paths |-> <<>>]

_rm_robust(f, target0) ==
    LET target == abspath(target0)
        f1 == rm_rf(f, target)
    IN IF ~exists(f1, target)
       THEN [fs |-> f1, raised |-> FALSE, deleted_count |-> 1, skipped_paths |-> <<>>]
       ELSE IF ~isdir(f1, target)
       THEN [fs |-> f1, raised |-> FALSE, deleted_count |-> 0,
             skipped_paths |-> <<target>>]
       ELSE LET w == rm_walk(f1, target, <<>>)
                r == rmdir(w.fs, target)
            IN IF r.ok
               THEN [fs |-> r.fs, raised |-> FALSE, deleted_count |-> 1,
                     skipped_paths |-> <<>>]
               ELSE [fs |-> r.fs, raised |-> FALSE, deleted_count |-> 1,
                     skipped_paths |-> Append(w.skipped_paths, target)]

----------------------------------------------------------------------------
(* routes.py: move to the Trash *)

RECURSIVE get_safe_dest_loop(_, _, _, _, _)
get_safe_dest_loop(f, folder, name_base, ext, counter) ==
    LET new_dest == join(folder, name_base \o <<" ">> \o str(counter) \o ext)
    IN IF exists(f, new_dest)
       THEN get_safe_dest_loop(f, folder, name_base, ext, counter + 1)
       ELSE new_dest

get_safe_dest(f, base_dest_path) ==
    IF ~exists(f, base_dest_path) THEN base_dest_path
    ELSE LET sp == splitext(basename(base_dest_path))
         IN get_safe_dest_loop(f, dirname(base_dest_path), sp[1], sp[2], 1)

\* the os.walk(target, topdown=False) loop of _trash_robust; st carries the
\* filesystem, skipped_paths, moved_count and whether os.makedirs raised.
\* An element of skipped_paths is the tuple (src, dest, message), written as
\* a record; the bare path of the single-file case has an empty dest and err
RECURSIVE trash_walk(_, _, _, _)
RECURSIVE trash_walk_subdirs(_, _, _, _)
RECURSIVE trash_walk_files(_, _, _)
RECURSIVE trash_walk_rmdirs(_, _)

trash_walk_subdirs(st, ds, target, primary_dest) ==
    IF ds = <<>> \/ st.raised THEN st
    ELSE trash_walk_subdirs(trash_walk(st, ds[1], target, primary_dest),
                            Tail(ds), target, primary_dest)

trash_walk_files(st, files, dest_dir) ==
    IF files = <<>> THEN st
    ELSE LET src_file == files[1]
             dest_file == get_safe_dest(st.fs, join(dest_dir, basename(src_file)))
             m == shutil_move(st.fs, src_file, dest_file)
         IN trash_walk_files(
                IF m.ok
                THEN [st EXCEPT !.fs = m.fs, !.moved_count = @ + 1]
                ELSE [st EXCEPT !.skipped_paths =
                                   Append(@, [src |-> src_file, dest |-> dest_file,
                                              err |-> "error"])],
                Tail(files), dest_dir)

trash_walk_rmdirs(st, ds) ==
    IF ds = <<>> THEN st
    ELSE LET src_d == ds[1]
             r == rmdir(st.fs, src_d)
         IN trash_walk_rmdirs(
                IF ~exists(st.fs, src_d) THEN st
                ELSE IF r.ok THEN [st EXCEPT !.fs = r.fs]
                ELSE [st EXCEPT !.skipped_paths =
                                   Append(@, [src |-> src_d, dest |-> <<>>,
                                              err |-> "Dir not empty"])],
                Tail(ds))

trash_walk(st, dirpath, target, primary_dest) ==
    IF st.raised \/ ~st.fs[dirpath].readable THEN st
    ELSE LET entries == scandir(st.fs, dirpath)
             dirnames == SelectSeq(entries, LAMBDA q : st.fs[q].kind = "dir")
             filenames == SelectSeq(entries, LAMBDA q : st.fs[q].kind # "dir")
             sub == trash_walk_subdirs(st, dirnames, target, primary_dest)
             rel_dir == SubSeq(dirpath, Len(target) + 1, Len(dirpath))
             dest_dir == primary_dest \o rel_dir
             mk == makedirs(sub.fs, dest_dir)
         IN IF sub.raised THEN sub
            ELSE IF ~mk.ok THEN [sub EXCEPT !.raised = TRUE]
            ELSE trash_walk_rmdirs(
                     trash_walk_files([sub EXCEPT !.fs = mk.fs], filenames, dest_dir),
                     dirnames)

\* _trash_robust from the shutil.move on, primary_dest having been chosen
_trash_robust_move(f, target, primary_dest) ==
    LET m == shutil_move(f, target, primary_dest)
    IN IF m.ok
       THEN [fs |-> m.fs, raised |-> FALSE, deleted_count |-> 1, skipped_paths |-> <<>>]
       ELSE IF ~isdir(f, target)
       THEN [fs |-> f, raised |-> FALSE, deleted_count |-> 0,
             skipped_paths |-> <<[src |-> target, dest |-> <<>>, err |-> ""]>>]
       ELSE LET w == trash_walk([fs |-> f, raised |-> FALSE, moved_count |-> 0,
                                 skipped_paths |-> <<>>],
                                target, target, primary_dest)
                r == rmdir(w.fs, target)
            IN IF w.raised
               THEN [fs |-> w.fs, raised |-> TRUE, deleted_count |-> 0,
                     skipped_paths |-> <<>>]
               ELSE IF ~exists(w.fs, target) \/ r.ok
               THEN [fs |-> r.fs, raised |-> FALSE, deleted_count |-> w.moved_count,
                     skipped_paths |-> w.skipped_paths]
               ELSE [fs |-> w.fs, raised |-> FALSE, deleted_count |-> w.moved_count,
                     skipped_paths |->
                        Append(w.skipped_paths, [src |-> target, dest |-> <<>>,
                                                 err |-> "Root dir not empty"])]

_trash_robust(f, target0) ==
    LET target == abspath(target0)
        trash_dir == join(Home, <<".Trash">>)
        primary_dest == get_safe_dest(f, join(trash_dir, basename(target)))
    IN _trash_robust_move(f, target, primary_dest)

----------------------------------------------------------------------------
(* scanner.py: size helpers *)

SKIP_NAMES == {<<".DS_Store">>}
VIP_FOLDERS == {<<"Messages">>}
_CACHE_TTL == 120
GapThreshold == 102400

\* The helper processes are the environment: an oracle O gives, for one scan,
\* what `du -sk` and the Finder query answer for each path (0 when the helper
\* fails, times out or prints nothing) and the order in which pool tasks end.
\* du_size that always takes the failure exit
du_size_failing(O, path) == 0

du_size(O, path) == IF path \in DOMAIN O.du THEN O.du[path] ELSE 0
get_finder_size(O, path) == IF path \in DOMAIN O.finder THEN O.finder[path] ELSE 0

RECURSIVE fast_dir_size(_, _, _)
RECURSIVE fast_dir_size_entries(_, _, _)

fast_dir_size_entries(f, es, O) ==
    IF es = <<>> THEN 0
    ELSE LET e == es[1]
             sub == fast_dir_size(f, e, O)
             one ==
               IF ~f[e].statable
               THEN IF Last(e) \in VIP_FOLDERS THEN get_finder_size(O, e)
                    ELSE IF f[e].kind = "dir" THEN du_size(O, e)
                    ELSE 0
               ELSE IF f[e].kind = "file" THEN f[e].blocks * 512
               ELSE IF f[e].kind = "dir"
                    THEN IF sub < 1024 /\ Last(e) \in VIP_FOLDERS
                         THEN get_finder_size(O, e)
                         ELSE sub
               ELSE 0
         IN one + fast_dir_size_entries(f, Tail(es), O)

fast_dir_size(f, path, O) ==
    IF ~(isdir(f, path) /\ f[path].readable)
    THEN IF basename(path) \in VIP_FOLDERS THEN get_finder_size(O, path)
         ELSE du_size(O, path)
    ELSE fast_dir_size_entries(f, scandir(f, path), O)

\* the helper processes a call of fast_dir_size starts: subprocess.run of du
\* (in du_size) and of osascript (in get_finder_size), with their path
RECURSIVE fast_dir_size_calls(_, _, _)
RECURSIVE fast_dir_size_entries_calls(_, _, _)

\* the loop over the entries with the Finder asked for every VIP folder,
\* whatever its enumeration gave
fast_dir_size_entries_calls_any_vip(f, es, O) ==
    IF es = <<>> THEN {}
    ELSE LET e == es[1]
             one ==
               IF ~f[e].statable
               THEN IF Last(e) \in VIP_FOLDERS THEN {[fn |-> "osascript", path |-> e]}
                    ELSE IF f[e].kind = "dir" THEN {[fn |-> "du", path |-> e]}
                    ELSE {}
               ELSE IF f[e].kind = "dir"
                    THEN fast_dir_size_calls(f, e, O)
                         \cup (IF Last(e) \in VIP_FOLDERS
                               THEN {[fn |-> "osascript", path |-> e]} ELSE {})
               ELSE {}
         IN one \cup fast_dir_size_entries_calls(f, Tail(es), O)

fast_dir_size_entries_calls(f, es, O) ==
    IF es = <<>> THEN {}
    ELSE LET e == es[1]
             one ==
               IF ~f[e].statable
               THEN IF Last(e) \in VIP_FOLDERS THEN {[fn |-> "osascript", path |-> e]}
                    ELSE IF f[e].kind = "dir" THEN {[fn |-> "du", path |-> e]}
                    ELSE {}
               ELSE IF f[e].kind = "dir"
                    THEN fast_dir_size_calls(f, e, O)
                         \cup (IF fast_dir_size(f, e, O) < 1024 /\ Last(e) \in VIP_FOLDERS
                               THEN {[fn |-> "osascript", path |-> e]} ELSE {})
               ELSE {}
         IN one \cup fast_dir_size_entries_calls(f, Tail(es), O)

fast_dir_size_calls(f, path, O) ==
    IF ~(isdir(f, path) /\ f[path].readable)
    THEN IF basename(path) \in VIP_FOLDERS THEN {[fn |-> "osascript", path |-> path]}
         ELSE {[fn |-> "du", path |-> path]}
    ELSE fast_dir_size_entries_calls(f, scandir(f, path), O)

----------------------------------------------------------------------------
(* scanner.py: the tree scan *)

None == [type |-> "None"]
EmptyPath == << <<>> >>       \* the path "" of a truncation node

RECURSIVE SumSize(_)
SumSize(cs) == IF cs = <<>> THEN 0 ELSE cs[1].size + SumSize(Tail(cs))

Max(a, b) == IF a >= b THEN a ELSE b
Min(a, b) == IF a <= b THEN a ELSE b

\* Python slices s[:k] and s[k:]
slice_to(s, k) ==
    IF k >= 0 THEN SubSeq(s, 1, Min(k, Len(s)))
    ELSE SubSeq(s, 1, Max(0, Len(s) + k))
slice_from(s, k) ==
    IF k >= 0 THEN SubSeq(s, Min(k, Len(s)) + 1, Len(s))
    ELSE SubSeq(s, Max(0, Len(s) + k) + 1, Len(s))

\* sorted(cs, key=size) without reverse=True: smallest first
RECURSIVE sorted_smallest_first(_, _)
sorted_smallest_first(acc, cs) ==
    IF cs = <<>> THEN acc
    ELSE LET x == cs[1]
             k == Cardinality({i \in 1..Len(acc) : acc[i].size <= x.size})
         IN sorted_smallest_first(SubSeq(acc, 1, k) \o <<x>> \o SubSeq(acc, k + 1, Len(acc)),
                                  Tail(cs))

\* sorted(cs, key=size, reverse=True): stable, equal sizes keep their order
RECURSIVE sorted_by_size(_, _)
sorted_by_size(acc, cs) ==
    IF cs = <<>> THEN acc
    ELSE LET x == cs[1]
             k == Cardinality({i \in 1..Len(acc) : acc[i].size >= x.size})
         IN sorted_by_size(SubSeq(acc, 1, k) \o <<x>> \o SubSeq(acc, k + 1, Len(acc)),
                           Tail(cs))

\* as_completed(futures): the order in which the pool tasks of a level-0
\* scan with more than 4 entries finish
as_completed(O, es) ==
    IF Len(O.order) = Len(es) THEN [i \in 1..Len(es) |-> es[O.order[i]]] ELSE es

file_node(e, physical) ==
    LET ext == splitext(Last(e))[2]
    IN [name |-> Last(e), path |-> e, size |-> physical, type |-> "file",
        extension |-> IF ext = <<>> THEN ".none" ELSE lower(ext[1])]

size_only_node(e, size) ==
    [name |-> Last(e), path |-> e, size |-> size, type |-> "directory",
     children |-> <<>>, has_children |-> TRUE]

RECURSIVE _scan(_, _, _, _, _, _)
RECURSIVE _scan_dir_entry(_, _, _, _, _, _)
RECURSIVE scan_entries(_, _, _, _, _, _)

\* _scan_dir_entry expanding a directory while depth > 0
_scan_dir_entry_one_deeper(f, e, depth, max_children, level, O) ==
    IF ~f[e].statable
    THEN IF f[e].kind = "dir" THEN size_only_node(e, du_size(O, e)) ELSE None
    ELSE IF Last(e) \in SKIP_NAMES THEN None
    ELSE IF f[e].kind = "symlink" THEN file_node(e, f[e].blocks * 512)
    ELSE IF f[e].kind = "file" THEN file_node(e, f[e].blocks * 512)
    ELSE IF f[e].kind = "dir"
    THEN IF depth > 0
         THEN _scan(f, e, depth - 1, max_children, level + 1, O)
         ELSE LET size == fast_dir_size(f, e, O)
              IN size_only_node(e, IF size < 1024 /\ Last(e) \in VIP_FOLDERS
                                   THEN get_finder_size(O, e) ELSE size)
    ELSE None

_scan_dir_entry(f, e, depth, max_children, level, O) ==
    IF ~f[e].statable
    THEN IF f[e].kind = "dir" THEN size_only_node(e, du_size(O, e)) ELSE None
    ELSE IF Last(e) \in SKIP_NAMES THEN None
    ELSE IF f[e].kind = "symlink" THEN file_node(e, f[e].blocks * 512)
    ELSE IF f[e].kind = "file" THEN file_node(e, f[e].blocks * 512)
    ELSE IF f[e].kind = "dir"
    THEN IF depth > 1
         THEN _scan(f, e, depth - 1, max_children, level + 1, O)
         ELSE LET size == fast_dir_size(f, e, O)
              IN size_only_node(e, IF size < 1024 /\ Last(e) \in VIP_FOLDERS
                                   THEN get_finder_size(O, e) ELSE size)
    ELSE None

\* the loop over raw_entries: the nodes that are not None, in task order
scan_entries(f, es, depth, max_children, level, O) ==
    IF es = <<>> THEN <<>>
    ELSE LET node == _scan_dir_entry(f, es[1], depth, max_children, level, O)
             rest == scan_entries(f, Tail(es), depth, max_children, level, O)
         IN IF node = None THEN rest ELSE <<node>> \o rest

\* "🔒 Protected data (<denied> restricted)"
protected_node(path, denied, gap) ==
    [name |-> <<"Protected data (">> \o str(denied) \o <<" restricted)">>,
     path |-> path, size |-> gap, type |-> "protected"]

\* "… <n> more items"
other_node(n, extra) ==
    [name |-> str(n) \o <<" more items">>, path |-> EmptyPath,
     size |-> extra, type |-> "other"]

gap_detect(path, dirs, all_children, O) ==
    LET scanned_total == SumSize(all_children)
        true_size == du_size(O, path)
        gap == true_size - scanned_total
        denied == Cardinality({i \in 1..Len(dirs) :
                                  "children" \in DOMAIN dirs[i]
                                  /\ dirs[i].children = <<>>})
    IN IF gap > GapThreshold
       THEN [all_children |-> Append(all_children, protected_node(path, denied, gap)),
             scanned_total |-> true_size]
       ELSE [all_children |-> all_children, scanned_total |-> scanned_total]

\* truncate with the first folded child left out of the 'other' size
truncate_forgets_one(all_children, max_children) ==
    IF Len(all_children) > max_children
    THEN Append(slice_to(all_children, max_children),
                other_node(Len(all_children) - max_children,
                           SumSize(slice_from(all_children, max_children + 1))))
    ELSE all_children

\* truncate writing the number of kept children into the 'other' node
truncate_counts_kept(all_children, max_children) ==
    IF Len(all_children) > max_children
    THEN Append(slice_to(all_children, max_children),
                other_node(max_children,
                           SumSize(slice_from(all_children, max_children))))
    ELSE all_children

truncate(all_children, max_children) ==
    IF Len(all_children) > max_children
    THEN Append(slice_to(all_children, max_children),
                other_node(Len(all_children) - max_children,
                           SumSize(slice_from(all_children, max_children))))
    ELSE all_children

_scan(f, path0, depth, max_children, level, O) ==
    LET path == abspath(path0)
        name == IF basename(path) = <<>> THEN <<"/">> ELSE basename(path)
    IN IF ~(isdir(f, path) /\ f[path].readable)
       THEN [name |-> name, path |-> path, size |-> du_size(O, path),
             type |-> "directory", children |-> <<>>]
       ELSE LET raw_entries == scandir(f, path)
                tasks == IF level = 0 /\ Len(raw_entries) > 4
                         THEN as_completed(O, raw_entries) ELSE raw_entries
                children == scan_entries(f, tasks, depth, max_children, level, O)
                dirs == sorted_by_size(<<>>, SelectSeq(children,
                                           LAMBDA c : c.type = "directory"))
                files == sorted_by_size(<<>>, SelectSeq(children,
                                            LAMBDA c : c.type # "directory"))
                g == IF level <= 1
                     THEN gap_detect(path, dirs, dirs \o files, O)
                     ELSE [all_children |-> dirs \o files,
                           scanned_total |-> SumSize(dirs \o files)]
                all_children == truncate(g.all_children, max_children)
            IN [name |-> name, path |-> path,
                size |-> Max(g.scanned_total, SumSize(all_children)),
                type |-> "directory", children |-> all_children,
                has_children |-> all_children # <<>>]

----------------------------------------------------------------------------
(* disk_info.py: the categorised breakdown of the volume *)

\* Sizes on the volume are counted in MiB, so that tens of GiB fit the
\* integers of the checker: a file of b blocks measures b * 512 MiB.
GiB == 1024

\* config.CATEGORY_EXTENSIONS, the extensions that occur in the model
CATEGORY_EXTENSIONS ==
    <<[name |-> "Apps", exts |-> {}],
      [name |-> "Documents", exts |-> {".txt"}],
      [name |-> "Archives", exts |-> {".zip"}]>>

ext_to_category(ext) ==
    IF \E i \in 1..Len(CATEGORY_EXTENSIONS) : ext \in CATEGORY_EXTENSIONS[i].exts
    THEN CATEGORY_EXTENSIONS[
            CHOOSE i \in 1..Len(CATEGORY_EXTENSIONS) : ext \in CATEGORY_EXTENSIONS[i].exts].name
    ELSE "Other"

\* the keys of category_sizes, in insertion order
category_names == <<"Apps", "Documents", "Archives", "System Data", "Other">>
important_cats == {"Apps", "Documents", "System Data", "macOS", "Other"}

system_paths ==
    << <<"Apps", << <<"Applications">> >> >>,
       <<"Other", << <<"Users">>, <<"Shared">> >> >> >>
user_paths ==
    << <<"Documents", join(Home, <<"Documents">>)>>,
       <<"Documents", join(Home, <<"Desktop">>)>>,
       <<"Apps", join(Home, <<"Applications">>)>> >>
media_folders ==
    << <<"Other", join(Home, <<"Pictures">>)>>,
       <<"Other", join(Home, <<"Music">>)>>,
       <<"Other", join(Home, <<"Movies">>)>>,
       <<"Other", join(Home, <<"Downloads">>)>>,
       <<"Other", join(Home, <<"Public">>)>>,
       <<"Other", join(join(Home, <<"Library">>), <<"Developer">>)>> >>
library_path == join(Home, <<"Library">>)
skip_dirs ==
    {<<"Documents">>, <<"Desktop">>, <<"Applications">>, <<"Pictures">>, <<"Music">>,
     <<"Movies">>, <<"Downloads">>, <<"Public">>, <<"Library">>}

\* the entries of the home directory that the shallow walk looks at
home_entries(f) ==
    IF isdir(f, Home) /\ f[Home].readable
    THEN SelectSeq(scandir(f, Home),
                   LAMBDA e : Last(e) \notin skip_dirs /\ Last(e) # <<".DS_Store">>
                              /\ f[e].statable)
    ELSE <<>>

\* the (category, path) tasks handed to the pool
disk_tasks(f) ==
    SelectSeq(system_paths \o user_paths \o media_folders
                  \o << <<"System Data", library_path>> >>,
              LAMBDA t : isdir(f, t[2]))
    \o [i \in 1..Len(SelectSeq(home_entries(f), LAMBDA e : f[e].kind = "dir")) |->
           <<"Other", SelectSeq(home_entries(f), LAMBDA e : f[e].kind = "dir")[i]>>]

\* loose files of the home directory, by the category of their extension
RECURSIVE loose_size(_, _, _)
loose_size(f, es, cat) ==
    IF es = <<>> THEN 0
    ELSE LET e == es[1]
             ext == splitext(Last(e))[2]
             c == ext_to_category(IF ext = <<>> THEN "" ELSE lower(ext[1]))
         IN (IF f[e].kind = "file" /\ c = cat THEN f[e].blocks * 512 ELSE 0)
            + loose_size(f, Tail(es), cat)

RECURSIVE task_size(_, _, _, _)
task_size(f, ts, cat, O) ==
    IF ts = <<>> THEN 0
    ELSE (IF ts[1][1] = cat THEN fast_dir_size(f, ts[1][2], O) ELSE 0)
         + task_size(f, Tail(ts), cat, O)

category_sizes(f, O) ==
    [i \in 1..Len(category_names) |->
        [name |-> category_names[i],
         size |-> loose_size(f, home_entries(f), category_names[i])
                  + task_size(f, disk_tasks(f), category_names[i], O)]]

categorize_home_storage(f, O) ==
    SelectSeq(sorted_by_size(<<>>, category_sizes(f, O)),
              LAMBDA c : c.size > 0 \/ c.name \in important_cats)

macos_estimated_size == 20 * GiB

\* the reconciliation merging the remainder into the first bucket of any name
merge_into_first(categories, sys_data_size) ==
    [categories EXCEPT ![1].size = @ + sys_data_size]

\* cat["size"] += sys_data_size on the bucket named "System Data", or a new one
merge_sys_data(categories, sys_data_size) ==
    IF \E i \in 1..Len(categories) : categories[i].name = "System Data"
    THEN LET k == CHOOSE i \in 1..Len(categories) :
                     /\ categories[i].name = "System Data"
                     /\ \A j \in 1..(i - 1) : categories[j].name # "System Data"
         IN [categories EXCEPT ![k].size = @ + sys_data_size]
    ELSE Append(categories, [name |-> "System Data", size |-> sys_data_size])

get_full_disk_info(f, O, usage) ==
    LET categories == categorize_home_storage(f, O)
        categorized_total == SumSize(categories)
        remaining_used == Max(0, usage.used - categorized_total)
        macos_size == Min(macos_estimated_size, remaining_used)
        sys_data_size == remaining_used - macos_size
        with_macos == IF macos_size > 0
                      THEN Append(categories, [name |-> "macOS", size |-> macos_size])
                      ELSE categories
        with_sys == IF sys_data_size > 0
                    THEN merge_sys_data(with_macos, sys_data_size)
                    ELSE with_macos
    IN [total |-> usage.total, used |-> usage.used, free |-> usage.free,
        categories |-> sorted_by_size(<<>>, with_sys)]

----------------------------------------------------------------------------
(* scanner.py: the result cache *)

RECURSIVE PathStr(_)
PathStr(p) ==
    IF p = <<>> THEN <<>> ELSE <<"/">> \o p[1] \o PathStr(Tail(p))

\* a key that leaves the default max_children out
cache_key_omits_default(path, depth, max_children) ==
    (IF path = Root THEN <<"/">> ELSE PathStr(path))
        \o <<"_">> \o str(depth)
        \o (IF max_children = 500 THEN <<>> ELSE <<"_">> \o str(max_children))

\* f"{path}_{depth}_{max_children}"
cache_key(path, depth, max_children) ==
    (IF path = Root THEN <<"/">> ELSE PathStr(path))
        \o <<"_">> \o str(depth) \o <<"_">> \o str(max_children)

EmptyCache == [k \in {} |-> <<0, None>>]

\* invalidate_cache evicting only the keys that start with the path, as the
\* module docstring describes it
invalidate_cache_by_prefix(c, path) ==
    IF path = None THEN EmptyCache
    ELSE LET gone == {k \in DOMAIN c : IsPrefix(PathStr(path), k)}
         IN [k \in DOMAIN c \ gone |-> c[k]]

invalidate_cache(c, path) == EmptyCache

\* scan_directory with "<= _CACHE_TTL" in the freshness test
scan_directory_ttl_inclusive(f, c, t0, t1, path0, depth, max_children, O) ==
    LET path == abspath(path0)
        key == cache_key(path, depth, max_children)
        data == _scan(f, path, depth, max_children, 0, O)
    IN IF key \in DOMAIN c /\ t0 - c[key][1] <= _CACHE_TTL
       THEN [data |-> c[key][2], cache |-> c, scanned |-> FALSE]
       ELSE [data |-> data, scanned |-> TRUE,
             cache |-> [k \in DOMAIN c \cup {key} |->
                          IF k = key THEN <<t1, data>> ELSE c[k]]]

\* scan_directory without the cache lookup
scan_directory_always_scans(f, c, t0, t1, path0, depth, max_children, O) ==
    LET path == abspath(path0)
        key == cache_key(path, depth, max_children)
        data == _scan(f, path, depth, max_children, 0, O)
    IN [data |-> data, scanned |-> TRUE,
        cache |-> [k \in DOMAIN c \cup {key} |->
                     IF k = key THEN <<t1, data>> ELSE c[k]]]

\* scan_directory at time t0; a fresh scan ends (and is stamped) at time t1
scan_directory(f, c, t0, t1, path0, depth, max_children, O) ==
    LET path == abspath(path0)
        key == cache_key(path, depth, max_children)
        data == _scan(f, path, depth, max_children, 0, O)
    IN IF key \in DOMAIN c /\ t0 - c[key][1] < _CACHE_TTL
       THEN [data |-> c[key][2], cache |-> c, scanned |-> FALSE]
       ELSE [data |-> data, scanned |-> TRUE,
             cache |-> [k \in DOMAIN c \cup {key} |->
                          IF k = key THEN <<t1, data>> ELSE c[k]]]

----------------------------------------------------------------------------
(* watcher.py: the SSE queue *)

TickStep == 60

\* put_nowait making room by dropping the oldest message
put_dropping_oldest(q, msg) ==
    IF Len(q) >= MaxQueue THEN Append(Tail(q), msg) ELSE Append(q, msg)

\* SSE_QUEUE.put_nowait(msg): raises queue.Full, which both callers swallow
put_nowait(q, msg) == IF Len(q) >= MaxQueue THEN q ELSE Append(q, msg)

_NOISY_PATTERNS == << << <<"Library">>, <<"Caches">> >>,
                      << <<"Library">>, <<"Logs">> >>,
                      << <<".Trash">> >>,
                      << <<"node_modules">> >>,
                      << <<"__pycache__">> >>,
                      << <<".git">> >> >>

\* _is_noisy matching a path that ends with the pattern's directory as well
_is_noisy_at_end(path) ==
    \E i \in 1..Len(_NOISY_PATTERNS) :
        LET pat == _NOISY_PATTERNS[i]
        IN \E k \in 1..Len(path) :
              /\ k + Len(pat) - 1 <= Len(path)
              /\ SubSeq(path, k, k + Len(pat) - 1) = pat

\* pattern "/x/y/" occurs in the path text: components x, y in a row and
\* at least one more component after them
_is_noisy(path) ==
    \E i \in 1..Len(_NOISY_PATTERNS) :
        LET pat == _NOISY_PATTERNS[i]
        IN \E k \in 1..Len(path) :
              /\ k + Len(pat) <= Len(path)
              /\ SubSeq(path, k, k + Len(pat) - 1) = pat

\* os.path.relpath(path, start) split on os.sep
relpath_parts(path, start) ==
    LET common == CHOOSE n \in 0..Min(Len(path), Len(start)) :
                     /\ SubSeq(path, 1, n) = SubSeq(start, 1, n)
                     /\ \A m \in (n + 1)..Min(Len(path), Len(start)) :
                           SubSeq(path, 1, m) # SubSeq(start, 1, m)
        ups == [i \in 1..(Len(start) - common) |-> <<"..">>]
        parts == ups \o SubSeq(path, common + 1, Len(path))
    IN IF parts = <<>> THEN << <<".">> >> ELSE parts

_emit(q, event_type, path) ==
    IF _is_noisy(path) THEN q
    ELSE LET parts == relpath_parts(path, Home)
             affected_root == IF Len(parts) >= 2 THEN join(Home, parts[1]) ELSE Home
         IN put_nowait(q, [type |-> event_type, path |-> path, root |-> affected_root])

\* _push_sse_deleted naming the parent directory as the deleted path
_push_sse_deleted_parent(q, path) ==
    put_nowait(q, [type |-> "deleted", path |-> dirname(path), root |-> dirname(path)])

_push_sse_deleted(q, path) ==
    put_nowait(q, [type |-> "deleted", path |-> path, root |-> dirname(path)])

----------------------------------------------------------------------------------------------------------------------------------------
(* The server *)

\* the deny-list without os.path.expanduser("~")
critical_without_home ==
    {Root, << <<"Users">> >>, << <<"System">> >>, << <<"Library">> >>,
     << <<"Applications">> >>, << <<"usr">> >>, << <<"bin">> >>, << <<"sbin">> >>,
     << <<"etc">> >>, << <<"var">> >>, << <<"tmp">> >>, << <<"private">> >>}

critical ==
    {Root, << <<"Users">> >>, Home, << <<"System">> >>, << <<"Library">> >>,
     << <<"Applications">> >>, << <<"usr">> >>, << <<"bin">> >>, << <<"sbin">> >>,
     << <<"etc">> >>, << <<"var">> >>, << <<"tmp">> >>, << <<"private">> >>}

\* GET /api/scan?path=..&depth=..  (O: what the helpers answer during this
\* request; dt: how long a fresh scan takes)
api_scan(scan_path, depth0, O, dt) ==
    /\ reqNo < MaxRequests
    /\ reqNo' = reqNo + 1
    /\ IF ~isdir(fs, scan_path)
       THEN /\ resp' = [op |-> "scan", status |-> 400,
                        req |-> [path |-> scan_path, depth |-> depth0]]
            /\ UNCHANGED <<fs, cache, now, queue, scanLog, pc, streams, getAt, event, pool>>
       ELSE \E r \in {scan_directory(fs, cache, now, now + dt, scan_path,
                                     Min(depth0, 10), 500, O)} :
               /\ now + dt <= MaxClock
               /\ r.scanned \/ dt = 0
               /\ cache' = r.cache
               /\ now' = now + dt
               /\ scanLog' = IF r.scanned THEN scanLog + 1 ELSE scanLog
               /\ resp' = [op |-> "scan", status |-> 200, at |-> now,
                           req |-> [path |-> scan_path, depth |-> depth0],
                           key |-> cache_key(abspath(scan_path), Min(depth0, 10), 500),
                           data |-> r.data]
               /\ UNCHANGED <<fs, queue, pc, streams, getAt, event, pool>>

\* POST /api/delete {"path": .., "permanent": ..}
api_delete(target, permanent) ==
    /\ reqNo < MaxRequests
    /\ reqNo' = reqNo + 1
    /\ IF abspath(target) \in critical
       THEN /\ resp' = [op |-> "delete", status |-> 403,
                        req |-> [path |-> target, permanent |-> permanent],
                        error |-> "Cannot delete critical system path"]
            /\ UNCHANGED <<fs, cache, now, queue, scanLog, pc, streams, getAt, event, pool>>
       ELSE LET abs_target == abspath(target)
                r == IF permanent THEN _rm_robust(fs, abs_target)
                     ELSE _trash_robust(fs, abs_target)
            IN IF r.raised
               THEN /\ fs' = r.fs
                    /\ resp' = [op |-> "delete", status |-> 500,
                                req |-> [path |-> target, permanent |-> permanent],
                                error |-> "exception"]
                    /\ UNCHANGED <<cache, now, queue, scanLog, pc, streams, getAt, event, pool>>
               ELSE /\ fs' = r.fs
                    /\ cache' = invalidate_cache(invalidate_cache(cache, abs_target),
                                                 dirname(abs_target))
                    /\ queue' = _push_sse_deleted(queue, abs_target)
                    /\ resp' = [op |-> "delete", status |-> 200,
                                req |-> [path |-> target, permanent |-> permanent],
                                deleted_count |-> r.deleted_count,
                                skipped |-> r.skipped_paths]
                    /\ UNCHANGED <<now, scanLog, pc, streams, getAt, event, pool>>

\* watchdog callbacks of _ChangeHandler
on_deleted(src_path) ==
    /\ event' = [type |-> "deleted", path |-> src_path]
    /\ queue' = _emit(queue, "deleted", src_path)
    /\ UNCHANGED <<fs, cache, now, resp, reqNo, scanLog, pc, streams, getAt, pool>>

on_created(src_path) ==
    /\ event' = [type |-> "created", path |-> src_path]
    /\ queue' = _emit(queue, "created", src_path)
    /\ UNCHANGED <<fs, cache, now, resp, reqNo, scanLog, pc, streams, getAt, pool>>

on_moved(dest_path) ==
    /\ event' = [type |-> "moved", path |-> dest_path]
    /\ queue' = _emit(queue, "moved", dest_path)
    /\ UNCHANGED <<fs, cache, now, resp, reqNo, scanLog, pc, streams, getAt, pool>>

\* the wall clock advances
Tick ==
    /\ now + TickStep <= MaxClock
    /\ now' = now + TickStep
    /\ UNCHANGED <<fs, cache, queue, resp, reqNo, scanLog, pc, streams, getAt, event, pool>>

----------------------------------------------------------------------------
(* The filesystems and requests the specifications range over *)

\* the request threads of the threaded Flask server (app.run(threaded=True))
Threads == {1, 2}
IdleThreads == [t \in Threads |-> [at |-> "idle"]]

\* the browsers that may connect to /api/events; an empty stream: not connected
Clients == {1, 2}
NoStreams == [c \in Clients |-> <<>>]
NoWaits == [c \in Clients |-> 0]
NoEvent == [type |-> "none"]

\* _POOL = ThreadPoolExecutor(max_workers=min(8, cpu_count)); the model's
\* machine has PoolWorkers cores.  The workers are alike: the pool is its
\* work queue, the tasks its workers are running and, for each coordinator,
\* the futures that have completed, in the order as_completed yields them
PoolWorkers == 2
NoPool == [queue |-> <<>>, running |-> {}, done |-> [t \in Threads |-> <<>>]]

Entry(kind, blocks) ==
    [kind |-> kind, blocks |-> blocks, locked |-> FALSE,
     readable |-> TRUE, statable |-> TRUE]

D == join(Home, <<"d">>)
DS == join(D, <<"s">>)
DA == join(D, <<"a", ".txt">>)
DSB == join(DS, <<"b">>)
HA == join(Home, <<"a", ".txt">>)
TA == join(TrashDir, <<"a", ".txt">>)
Tmp == << <<"tmp">> >>

BaseFs ==
    (Root :> Entry("dir", 0)) @@ (<< <<"Users">> >> :> Entry("dir", 0))
    @@ (Home :> Entry("dir", 0)) @@ (TrashDir :> Entry("dir", 0))
    @@ (Tmp :> Entry("dir", 0))
    @@ (HA :> Entry("file", 8))
    @@ (D :> Entry("dir", 0)) @@ (DA :> Entry("file", 8))
    @@ (DS :> Entry("dir", 0)) @@ (DSB :> Entry("file", 16))

InitFs(locked, unreadable, inTrash) ==
    LET base == IF inTrash THEN BaseFs @@ (TA :> Entry("file", 24)) ELSE BaseFs
    IN [p \in DOMAIN base |->
          [base[p] EXCEPT !.locked = (p \in locked),
                          !.readable = (p \notin unreadable)]]

NoOracle == [du |-> EmptyCache, finder |-> EmptyCache, order |-> <<>>]

----------------------------------------------------------------------------------------------------------------------------------------
(* Spec: scan requests, deletions and the clock, over the result cache *)

ScanPaths == {D, DA}
ScanDepths == {1, 2}
ServerOracles ==
    {[du |-> (D :> a), finder |-> EmptyCache, order |-> <<>>] : a \in {0, 512 * 1024}}
ServerTargets == {D \o << <<"..">> >>, D, DA}
TimedTargets == {D \o << <<"..">> >>, DA}

Init ==
    /\ fs \in {InitFs({}, {}, FALSE), InitFs({DA}, {}, FALSE)}
    /\ cache = EmptyCache
    /\ now = 0
    /\ queue = <<>>
    /\ resp = [op |-> "none"]
    /\ reqNo = 0
    /\ scanLog = 0
    /\ pc = IdleThreads
    /\ streams = NoStreams
    /\ getAt = NoWaits
    /\ event = NoEvent
    /\ pool = NoPool

Next ==
    \/ \E p \in ScanPaths, d \in ScanDepths, O \in ServerOracles, dt \in {0, TickStep} :
          api_scan(p, d, O, dt)
    \/ \E p \in TimedTargets, perm \in BOOLEAN : api_delete(p, perm)
    \/ Tick

Spec == Init /\ [][Next]_vars

----------------------------------------------------------------------------
(* SpecNotify: deletions and watcher events, over the cache and the SSE queue *)

WatchPaths == {DA, TA}
NotifyOracle == [du |-> (D :> 512 * 1024), finder |-> EmptyCache, order |-> <<>>]

NextNotify ==
    \/ reqNo < MaxDeletes /\ api_scan(D, 2, NotifyOracle, 0)
    \/ reqNo < MaxDeletes /\ \E p \in ServerTargets, perm \in BOOLEAN : api_delete(p, perm)
    \/ \E p \in WatchPaths : on_deleted(p)
    \/ \E p \in WatchPaths : on_created(p)
    \/ \E p \in WatchPaths : on_moved(p)

SpecNotify == Init /\ [][NextNotify]_vars

----------------
(* SpecDelete: deletions over filesystems with protected and unlistable parts *)

\* which entries SIP protects, and which directory cannot be listed
LockChoices == {{}, {DA}, {DSB}, {DS}, {DA, DSB}, {HA}}
UnreadableChoices == {{}, {DS}}

DeleteTargets ==
    {Root, Tmp, D \o << <<"..">> >>, HA, D, DS, DA, TA, join(Home, <<"zz">>)}

InitDelete ==
    /\ \E locked \in LockChoices, unreadable \in UnreadableChoices,
          inTrash \in BOOLEAN :
          fs = InitFs(locked, unreadable, inTrash)
    /\ cache = EmptyCache
    /\ now = 0
    /\ queue = <<>>
    /\ resp = [op |-> "none"]
    /\ reqNo = 0
    /\ scanLog = 0
    /\ pc = IdleThreads
    /\ streams = NoStreams
    /\ getAt = NoWaits
    /\ event = NoEvent
    /\ pool = NoPool

NextDelete ==
    reqNo < MaxDeletes /\ \E p \in DeleteTargets, perm \in BOOLEAN : api_delete(p, perm)

SpecDelete == InitDelete /\ [][NextDelete]_vars

----------------------------------------------------------------------------
(* SpecScan: scanner._scan applied to a tree with unreadable parts *)

DST == join(DS, <<"t">>)
DSTC == join(DST, <<"c">>)
DE == join(D, <<"e">>)
DDS == join(D, <<".DS_Store">>)

ScanFs ==
    BaseFs @@ (DST :> Entry("dir", 0)) @@ (DSTC :> Entry("file", 8))
    @@ (DE :> Entry("dir", 0)) @@ (DDS :> Entry("file", 8))

InitScanFs(unreadable, unstatable) ==
    [p \in DOMAIN ScanFs |->
        [ScanFs[p] EXCEPT !.readable = (p \notin unreadable),
                          !.statable = (p \notin unstatable)]]

ScanUnreadable == {{}, {DS}, {DST}, {DS, DST}, {D}}
ScanUnstatable == {{}, {DS}}
ScanArgDepths == {1, 2, 3}
ScanArgMax == {1, 2, 3, 500}

\* du answers: 0 (failed), the visible bytes, or more than the threshold above
ScanOracles ==
    {[du |-> (D :> a) @@ (DS :> b) @@ (DST :> c) @@ (DE :> e),
      finder |-> EmptyCache, order |-> <<>>] :
        a \in {0, 118784, 119808, 223232}, b \in {0, 12288, 115712},
        c \in {0, 4096}, e \in {0, 104448}}

InitScan ==
    /\ \E unreadable \in ScanUnreadable, unstatable \in ScanUnstatable :
          fs = InitScanFs(unreadable, unstatable)
    /\ cache = EmptyCache
    /\ now = 0
    /\ queue = <<>>
    /\ resp = [op |-> "none"]
    /\ reqNo = 0
    /\ scanLog = 0
    /\ pc = IdleThreads
    /\ streams = NoStreams
    /\ getAt = NoWaits
    /\ event = NoEvent
    /\ pool = NoPool

\* a direct call _scan(path, depth, max_children) on the initial tree
call_scan(path, depth, max_children, O) ==
    /\ reqNo = 0
    /\ reqNo' = 1
    /\ resp' = [op |-> "_scan", path |-> path, depth |-> depth,
                max_children |-> max_children, O |-> O,
                data |-> _scan(fs, path, depth, max_children, 0, O)]
    /\ scanLog' = scanLog + 1
    /\ UNCHANGED <<fs, cache, now, queue, pc, streams, getAt, event, pool>>

NextScan ==
    \E d \in ScanArgDepths, m \in ScanArgMax, O \in ScanOracles : call_scan(D, d, m, O)

SpecScan == InitScan /\ [][NextScan]_vars

----------------------------------------------------------------------------
(* A level-0 scan whose entries go to the worker pool *)

G == join(Home, <<"g">>)
GA == join(G, <<"a">>)
GB == join(G, <<"b">>)
GC == join(G, <<"c">>)
GE == join(G, <<"e">>)
GF == join(G, <<"f">>)

\* five entries (more than 4): two files of one size, two empty directories
PoolFs ==
    BaseFs @@ (G :> Entry("dir", 0))
    @@ (GA :> Entry("file", 8)) @@ (GB :> Entry("file", 8))
    @@ (GC :> Entry("file", 16))
    @@ (GE :> Entry("dir", 0)) @@ (GF :> Entry("dir", 0))

\* the orders in which the five pool tasks can complete
CompletionOrders ==
    {o \in [1..5 -> 1..5] : \A i, j \in 1..5 : o[i] = o[j] => i = j}

PoolOracles ==
    {[du |-> EmptyCache, finder |-> EmptyCache, order |-> o] : o \in CompletionOrders}

PoolDepths == {1, 2}
PoolMax == {2, 500}

InitPool ==
    /\ fs = PoolFs
    /\ cache = EmptyCache
    /\ now = 0
    /\ queue = <<>>
    /\ resp = [op |-> "none"]
    /\ reqNo = 0
    /\ scanLog = 0
    /\ pc = IdleThreads
    /\ streams = NoStreams
    /\ getAt = NoWaits
    /\ event = NoEvent
    /\ pool = NoPool

NextPool ==
    \E d \in PoolDepths, m \in PoolMax, O \in PoolOracles : call_scan(G, d, m, O)

SpecPool == InitPool /\ [][NextPool]_vars

----------------------------------------------------------------------------
(* /api/scan with whatever path and depth a client sends *)

RequestPaths == {D, DA, join(Home, <<"zz">>)}
RequestDepths == {0 - 1, 0, 2, 11}
RequestOracle == [du |-> (D :> 512 * 1024), finder |-> EmptyCache, order |-> <<>>]

NextRequests ==
    \E p \in RequestPaths, d \in RequestDepths : api_scan(p, d, RequestOracle, 0)

SpecRequests == Init /\ [][NextRequests]_vars

----------------------------------------------------------------------------
(* /api/events: the clients that drain the SSE queue *)

MaxStream == 3       \* records a stream yields before the client goes away
MaxIdle == 30        \* the clock of SpecStream stops here

GetTimeout == 20     \* SSE_QUEUE.get(timeout=20)
StreamTickStep == 10

\* the generator of client c is blocked in SSE_QUEUE.get
Waiting(c) == streams[c] # <<>> /\ Len(streams[c]) < MaxStream

\* GET /api/events: the generator's first yield
api_events(c) ==
    /\ streams[c] = <<>>
    /\ streams' = [streams EXCEPT ![c] = <<[type |-> "connected"]>>]
    /\ getAt' = [getAt EXCEPT ![c] = now]
    /\ UNCHANGED <<fs, cache, now, queue, resp, reqNo, scanLog, pc, event, pool>>

\* the stream yielding the newest queued message
event_stream_get_newest(c) ==
    /\ Waiting(c)
    /\ queue # <<>>
    /\ queue' = SubSeq(queue, 1, Len(queue) - 1)
    /\ streams' = [streams EXCEPT ![c] = Append(@, queue[Len(queue)])]
    /\ getAt' = [getAt EXCEPT ![c] = now]
    /\ UNCHANGED <<fs, cache, now, resp, reqNo, scanLog, pc, event, pool>>

\* msg = SSE_QUEUE.get(timeout=20); yield msg
event_stream_get(c) ==
    /\ Waiting(c)
    /\ queue # <<>>
    /\ queue' = Tail(queue)
    /\ streams' = [streams EXCEPT ![c] = Append(@, Head(queue))]
    /\ getAt' = [getAt EXCEPT ![c] = now]
    /\ UNCHANGED <<fs, cache, now, resp, reqNo, scanLog, pc, event, pool>>

\* the get timed out on an empty queue: yield ": keepalive" and wait again
event_stream_keepalive(c) ==
    /\ Waiting(c)
    /\ queue = <<>>
    /\ now >= getAt[c] + GetTimeout
    /\ streams' = [streams EXCEPT ![c] = Append(@, [type |-> "keepalive"])]
    /\ getAt' = [getAt EXCEPT ![c] = now]
    /\ UNCHANGED <<fs, cache, now, queue, resp, reqNo, scanLog, pc, event, pool>>

\* time passes while the generators are blocked: a blocked get returns as
\* soon as there is a message, and at the latest when its timeout expires
stream_wait ==
    /\ now + StreamTickStep <= MaxIdle
    /\ \A c \in Clients :
          Waiting(c) => queue = <<>> /\ now + StreamTickStep <= getAt[c] + GetTimeout
    /\ now' = now + StreamTickStep
    /\ UNCHANGED <<fs, cache, queue, resp, reqNo, scanLog, pc, streams, getAt, event, pool>>

NextStream ==
    \/ \E c \in Clients : api_events(c)
    \/ \E c \in Clients : event_stream_get(c)
    \/ \E c \in Clients : event_stream_keepalive(c)
    \/ on_created(DA)
    \/ on_deleted(DA)
    \/ stream_wait

InitStream ==
    /\ fs = InitFs({}, {}, FALSE)
    /\ cache = EmptyCache
    /\ now = 0
    /\ queue = <<>>
    /\ resp = [op |-> "none"]
    /\ reqNo = 0
    /\ scanLog = 0
    /\ pc = IdleThreads
    /\ streams = NoStreams
    /\ getAt = NoWaits
    /\ event = NoEvent
    /\ pool = NoPool

SpecStream == InitStream /\ [][NextStream]_vars

----------------------------------------------------------------------------
(* The watcher alone: events from all over the home tree *)

Lib == join(Home, <<"Library">>)
LibCaches == join(Lib, <<"Caches">>)

\* paths inside, at and beside the high-churn directories
DeletedPaths == {DA, TA, TrashDir}
CreatedPaths ==
    {join(LibCaches, <<"x">>), LibCaches,
     join(join(Lib, <<"d">>), <<"Caches">>) \o << <<"x">> >>}
MovedPaths ==
    {HA, join(join(D, <<".git">>), <<"config">>),
     join(join(D, <<"x", ".git">>), <<"config">>)}

NextWatch ==
    \/ \E p \in DeletedPaths : on_deleted(p)
    \/ \E p \in CreatedPaths : on_created(p)
    \/ \E p \in MovedPaths : on_moved(p)

SpecWatch == InitStream /\ [][NextWatch]_vars

----------------------------------------------------------------------------
(* Direct calls of the scanner's public API *)

MaxCalls == 3

CallPaths == {D, DS}
CallDepths == {1, 2}
CallMax == {1, 500}
CallOracles ==
    {[du |-> (D :> a), finder |-> EmptyCache, order |-> <<>>] : a \in {0, 512 * 1024}}
InvalidateArgs == {None, Root, Home, D, DS, DA, join(Home, <<"zz">>)}

\* scan_directory(path, depth, max_children)
call_scan_directory(path, depth, max_children, O) ==
    /\ reqNo < MaxCalls
    /\ reqNo' = reqNo + 1
    /\ \E r \in {scan_directory(fs, cache, now, now, path, depth, max_children, O)} :
          /\ cache' = r.cache
          /\ scanLog' = IF r.scanned THEN scanLog + 1 ELSE scanLog
          /\ resp' = [op |-> "scan_directory",
                      path |-> path, depth |-> depth, max_children |-> max_children,
                      scanned |-> r.scanned,
                      key |-> cache_key(abspath(path), depth, max_children),
                      data |-> r.data]
    /\ UNCHANGED <<fs, now, queue, pc, streams, getAt, event, pool>>

\* invalidate_cache(path) / invalidate_cache()
call_invalidate_cache(path) ==
    /\ reqNo < MaxCalls
    /\ reqNo' = reqNo + 1
    /\ cache' = invalidate_cache(cache, path)
    /\ resp' = [op |-> "invalidate_cache", path |-> path]
    /\ UNCHANGED <<fs, now, queue, scanLog, pc, streams, getAt, event, pool>>

NextCache ==
    \/ \E p \in CallPaths, d \in CallDepths, m \in CallMax, O \in CallOracles :
          call_scan_directory(p, d, m, O)
    \/ \E a \in InvalidateArgs : call_invalidate_cache(a)

SpecCache == Init /\ [][NextCache]_vars

----------------------------------------------------------------------------
(* scan_directory step by step, on the request threads of the server *)

ThreadDepths == {1, 2}
ThreadOracles ==
    {[du |-> (D :> a), finder |-> EmptyCache, order |-> <<>>] : a \in {0, 512 * 1024}}
ThreadTargets == {DA, DSB}

\* scan_directory up to the cache lookup: a hit returns, a miss goes on
scan_directory_lookup(t, path0, depth, max_children) ==
    /\ pc[t].at = "idle"
    /\ reqNo < MaxRequests
    /\ reqNo' = reqNo + 1
    /\ LET path == abspath(path0)
           key == cache_key(path, depth, max_children)
       IN IF key \in DOMAIN cache /\ now - cache[key][1] < _CACHE_TTL
          THEN /\ resp' = [op |-> "scan_directory", thread |-> t, key |-> key,
                           data |-> cache[key][2]]
               /\ pc' = pc
          ELSE /\ pc' = [pc EXCEPT ![t] = [at |-> "scan", path |-> path,
                                           depth |-> depth,
                                           max_children |-> max_children,
                                           key |-> key]]
               /\ resp' = resp
    /\ UNCHANGED <<fs, cache, now, queue, scanLog, streams, getAt, event, pool>>

\* data = _scan(path, depth, max_children)
scan_directory_scan(t, O) ==
    /\ pc[t].at = "scan"
    /\ \E data \in {_scan(fs, pc[t].path, pc[t].depth, pc[t].max_children, 0, O)} :
          pc' = [pc EXCEPT ![t] = [at |-> "store", key |-> pc[t].key, data |-> data]]
    /\ scanLog' = scanLog + 1
    /\ UNCHANGED <<fs, cache, now, queue, resp, reqNo, streams, getAt, event, pool>>

\* _SCAN_CACHE[cache_key] = (time.time(), data); return data
scan_directory_store(t) ==
    /\ pc[t].at = "store"
    /\ cache' = [k \in DOMAIN cache \cup {pc[t].key} |->
                   IF k = pc[t].key THEN <<now, pc[t].data>> ELSE cache[k]]
    /\ resp' = [op |-> "scan_directory", thread |-> t, key |-> pc[t].key,
                data |-> pc[t].data]
    /\ pc' = [pc EXCEPT ![t] = [at |-> "idle"]]
    /\ UNCHANGED <<fs, now, queue, reqNo, scanLog, streams, getAt, event, pool>>

NextThreads ==
    \/ \E t \in Threads, d \in ThreadDepths : scan_directory_lookup(t, D, d, 500)
    \/ \E t \in Threads, O \in ThreadOracles : scan_directory_scan(t, O)
    \/ \E t \in Threads : scan_directory_store(t)
    \/ \E p \in ThreadTargets, perm \in BOOLEAN : api_delete(p, perm)

SpecThreads == Init /\ [][NextThreads]_vars

----------------------------------------------------------------------------
(* /api/disk-info over home directories of several shapes *)

Apps == << <<"Applications">> >>
AppsX == join(Apps, <<"x">>)
Docs == join(Home, <<"Documents">>)
DocsA == join(Docs, <<"a", ".txt">>)
LibX == join(Lib, <<"x">>)
LibDev == join(Lib, <<"Developer">>)
LibDevX == join(LibDev, <<"x">>)
HZip == join(Home, <<"a", ".zip">>)

\* dev: the blocks of ~/Library/Developer/x; zip: whether ~/a.zip exists
DiskFs(dev, zip, unreadable) ==
    LET base == BaseFs @@ (Apps :> Entry("dir", 0)) @@ (AppsX :> Entry("file", 8))
                @@ (Docs :> Entry("dir", 0)) @@ (DocsA :> Entry("file", 2))
                @@ (Lib :> Entry("dir", 0)) @@ (LibX :> Entry("file", 2))
                @@ (LibDev :> Entry("dir", 0)) @@ (LibDevX :> Entry("file", dev))
                @@ (IF zip THEN (HZip :> Entry("file", 2)) ELSE BaseFs)
    IN [q \in DOMAIN base |-> [base[q] EXCEPT !.readable = (q \notin unreadable)]]

DevBlocks == {2, 48}
DiskUnreadable == {{}, {Lib}}
DiskOracles ==
    {[du |-> (Lib :> a), finder |-> EmptyCache, order |-> <<>>] : a \in {0, 25 * GiB}}

\* what shutil.disk_usage("/") reports, in MiB
DiskTotal == 200 * GiB
DiskUsages ==
    {[total |-> DiskTotal, used |-> u * GiB, free |-> DiskTotal - u * GiB] :
        u \in {30, 50, 100}}

\* the blocks the files of the filesystem occupy, in the unit of the sizes
VolumeBytes(f) ==
    LET files == InOrder({q \in DOMAIN f : f[q].kind = "file"})
    IN SumSize([i \in 1..Len(files) |-> [size |-> f[files[i]].blocks * 512]])

InitDisk ==
    /\ \E dev \in DevBlocks, zip \in BOOLEAN, unreadable \in DiskUnreadable :
          fs = DiskFs(dev, zip, unreadable)
    /\ cache = EmptyCache
    /\ now = 0
    /\ queue = <<>>
    /\ resp = [op |-> "none"]
    /\ reqNo = 0
    /\ scanLog = 0
    /\ pc = IdleThreads
    /\ streams = NoStreams
    /\ getAt = NoWaits
    /\ event = NoEvent
    /\ pool = NoPool

\* GET /api/disk-info; the volume holds at least the files of the model
api_disk_info(usage, O) ==
    /\ reqNo < MaxCalls
    /\ usage.used >= VolumeBytes(fs)
    /\ reqNo' = reqNo + 1
    /\ resp' = [op |-> "disk-info", status |-> 200, O |-> O,
                data |-> get_full_disk_info(fs, O, usage)]
    /\ UNCHANGED <<fs, cache, now, queue, scanLog, pc, streams, getAt, event, pool>>

NextDisk ==
    \E usage \in DiskUsages, O \in DiskOracles : api_disk_info(usage, O)

SpecDisk == InitDisk /\ [][NextDisk]_vars

----------------------------------------------------------------------------
(* Scans and measurements of a tree that holds a symbolic link *)

DL == join(D, <<"l">>)

\* a symbolic link: the blocks of the link itself, and where it points
Link(blocks, target) ==
    [kind |-> "symlink", blocks |-> blocks, locked |-> FALSE,
     readable |-> TRUE, statable |-> TRUE, target |-> target]

\* /Users/me/d/l pointing to a directory beside it, to a file outside, or
\* to its own parent; 0 blocks (target stored inline) or 8 blocks
LinkBlocks == {0, 8}
LinkTargets == {DS, HA, D}
MeasuredPaths == {Home, D, DS}
LinkDepths == {1, 2, 3}
LinkMax == {2, 500}

InitLinks ==
    /\ \E b \in LinkBlocks, t \in LinkTargets :
          fs = BaseFs @@ (DL :> Link(b, t))
    /\ cache = EmptyCache
    /\ now = 0
    /\ queue = <<>>
    /\ resp = [op |-> "none"]
    /\ reqNo = 0
    /\ scanLog = 0
    /\ pc = IdleThreads
    /\ streams = NoStreams
    /\ getAt = NoWaits
    /\ event = NoEvent
    /\ pool = NoPool

\* a direct call fast_dir_size(path) on the initial tree
call_fast_dir_size(path, O) ==
    /\ reqNo = 0
    /\ reqNo' = 1
    /\ resp' = [op |-> "fast_dir_size", path |-> path, O |-> O,
                size |-> fast_dir_size(fs, path, O),
                calls |-> fast_dir_size_calls(fs, path, O)]
    /\ UNCHANGED <<fs, cache, now, queue, scanLog, pc, streams, getAt, event, pool>>

NextLinks ==
    \/ \E p \in MeasuredPaths : call_fast_dir_size(p, NoOracle)
    \/ \E p \in MeasuredPaths, d \in LinkDepths, m \in LinkMax :
          call_scan(p, d, m, NoOracle)

SpecLinks == InitLinks /\ [][NextLinks]_vars

----------------------------------------------------------------------------
(* Moves to a Trash that may refuse new entries *)

\* InitFs with a ~/.Trash in which nothing can be created
ReadOnlyTrash(f) ==
    [q \in DOMAIN f |->
        IF q = TrashDir
        THEN [kind |-> "dir", blocks |-> 0, locked |-> FALSE, readable |-> TRUE,
              statable |-> TRUE, writable |-> FALSE]
        ELSE f[q]]

FallbackLocks == {{}, {DA}, {DSB}, {DA, DSB}}
FallbackTargets == {D, DS, DA, HA}

InitFallback ==
    /\ \E locked \in FallbackLocks, inTrash \in BOOLEAN, ro \in BOOLEAN :
          fs = IF ro THEN ReadOnlyTrash(InitFs(locked, {}, inTrash))
               ELSE InitFs(locked, {}, inTrash)
    /\ cache = EmptyCache
    /\ now = 0
    /\ queue = <<>>
    /\ resp = [op |-> "none"]
    /\ reqNo = 0
    /\ scanLog = 0
    /\ pc = IdleThreads
    /\ streams = NoStreams
    /\ getAt = NoWaits
    /\ event = NoEvent
    /\ pool = NoPool

NextFallback ==
    reqNo < MaxDeletes /\ \E p \in FallbackTargets, perm \in BOOLEAN : api_delete(p, perm)

SpecFallback == InitFallback /\ [][NextFallback]_vars

----------------------------------------------------------------------------
(* The helper processes: du, osascript and /bin/rm run by subprocess.run *)

NoTimeout == 0 - 1
DuTimeout == 60          \* du_size: timeout=60
FinderTimeout == 8       \* get_finder_size: timeout=8

HelperPaths == {D, DS}
HelperAnswers == {0, 4096}

\* thread t is inside subprocess.run, waiting for the helper to end
InSubprocess(t) == pc[t].at = "subprocess"

subprocess_run(t, fn, path, timeout) ==
    /\ pc[t].at = "idle"
    /\ now + TickStep <= MaxClock
    /\ pc' = [pc EXCEPT ![t] = [at |-> "subprocess", fn |-> fn, path |-> path,
                                 since |-> now, timeout |-> timeout]]
    /\ UNCHANGED <<fs, cache, now, queue, resp, reqNo, scanLog, streams, getAt, event, pool>>

\* du_size(path): subprocess.run(["du", "-sk", path], timeout=60)
du_size_run(t, path) == subprocess_run(t, "du_size", path, DuTimeout)

\* get_finder_size(path): subprocess.run(["osascript", ...], timeout=8)
get_finder_size_run(t, path) == subprocess_run(t, "get_finder_size", path, FinderTimeout)

\* _rm_robust(target): subprocess.run(["/bin/rm", "-rf", target])
_rm_robust_run(t, target) == subprocess_run(t, "_rm_robust", target, NoTimeout)

\* the helper ends by itself; the caller goes on with what it printed or did
subprocess_exits(t, out) ==
    /\ InSubprocess(t)
    /\ IF pc[t].fn = "_rm_robust"
       THEN \E r \in {_rm_robust(fs, pc[t].path)} :
               /\ fs' = r.fs
               /\ resp' = [op |-> "_rm_robust", path |-> pc[t].path,
                           deleted_count |-> r.deleted_count,
                           skipped_paths |-> r.skipped_paths]
       ELSE /\ resp' = [op |-> pc[t].fn, path |-> pc[t].path, size |-> out,
                        waited |-> now - pc[t].since]
            /\ fs' = fs
    /\ pc' = [pc EXCEPT ![t] = [at |-> "idle"]]
    /\ UNCHANGED <<cache, now, queue, reqNo, scanLog, streams, getAt, event, pool>>

\* subprocess.TimeoutExpired, caught by "except Exception: pass": return 0
subprocess_timeout(t) ==
    /\ InSubprocess(t)
    /\ pc[t].timeout # NoTimeout
    /\ now >= pc[t].since + pc[t].timeout
    /\ resp' = [op |-> pc[t].fn, path |-> pc[t].path, size |-> 0,
                waited |-> now - pc[t].since]
    /\ pc' = [pc EXCEPT ![t] = [at |-> "idle"]]
    /\ UNCHANGED <<fs, cache, now, queue, reqNo, scanLog, streams, getAt, event, pool>>

NextHelpers ==
    \/ \E t \in Threads, p \in HelperPaths : du_size_run(t, p)
    \/ \E t \in Threads, p \in HelperPaths : get_finder_size_run(t, p)
    \/ \E t \in Threads, p \in HelperPaths : _rm_robust_run(t, p)
    \/ \E t \in Threads, out \in HelperAnswers : subprocess_exits(t, out)
    \/ \E t \in Threads : subprocess_timeout(t)
    \/ Tick

\* the clock runs and an expired timeout is delivered; nothing makes a
\* helper process end
SpecHelpers ==
    /\ InitStream
    /\ [][NextHelpers]_vars
    /\ WF_vars(Tick)
    /\ \A t \in Threads : WF_vars(subprocess_timeout(t))

----------------------------------------------------------------------------
(* Scans of a tree with directories that cannot be listed or stat-ed *)

DM == join(D, <<"Messages">>)
DMX == join(DM, <<"x">>)

DeniedFs == BaseFs @@ (DM :> Entry("dir", 0)) @@ (DMX :> Entry("file", 8))

DeniedUnreadable == {{}, {DM}, {DS}, {DM, DS}, {D}}
DeniedUnstatable == {{}, {DM}, {DS}}
DeniedDepths == {1, 2}

\* du and the Finder disagree about Messages, or fail
DeniedOracles ==
    {[du |-> (D :> a) @@ (DS :> b) @@ (DM :> c), finder |-> (DM :> g),
      order |-> <<>>] :
        a \in {0, 16384}, b \in {0, 12288}, c \in {0, 8192}, g \in {0, 20480}}

InitDenied ==
    /\ \E unreadable \in DeniedUnreadable, unstatable \in DeniedUnstatable :
          fs = [q \in DOMAIN DeniedFs |->
                  [DeniedFs[q] EXCEPT !.readable = (q \notin unreadable),
                                     !.statable = (q \notin unstatable)]]
    /\ cache = EmptyCache
    /\ now = 0
    /\ queue = <<>>
    /\ resp = [op |-> "none"]
    /\ reqNo = 0
    /\ scanLog = 0
    /\ pc = IdleThreads
    /\ streams = NoStreams
    /\ getAt = NoWaits
    /\ event = NoEvent
    /\ pool = NoPool

NextDenied ==
    \E d \in DeniedDepths, O \in DeniedOracles : call_scan(D, d, 500, O)

SpecDenied == InitDenied /\ [][NextDenied]_vars

----------------------------------------------------------------------------
(* Move-to-Trash requests running side by side on the request threads *)

RaceTargets == {DA, HA, DS}

\* a thread is not inside a request
AtRest(t) == pc[t].at \in {"idle", "done"}

\* api_delete in recoverable mode up to the choice of primary_dest
trash_choose_dest(t, target) ==
    /\ AtRest(t)
    /\ reqNo < MaxRequests
    /\ abspath(target) \notin critical
    /\ reqNo' = reqNo + 1
    /\ pc' = [pc EXCEPT ![t] =
                [at |-> "move", target |-> abspath(target),
                 primary_dest |-> get_safe_dest(fs, join(TrashDir,
                                                         basename(abspath(target))))]]
    /\ UNCHANGED <<fs, cache, now, queue, resp, scanLog, streams, getAt, event, pool>>

\* the rest of the request: shutil.move (or the walk), then the answer
trash_move(t) ==
    /\ pc[t].at = "move"
    /\ \E r \in {_trash_robust_move(fs, pc[t].target, pc[t].primary_dest)} :
          /\ fs' = r.fs
          /\ pc' = [pc EXCEPT ![t] = [at |-> "done", target |-> pc[t].target,
                                      primary_dest |-> pc[t].primary_dest,
                                      moved_whole |-> (~r.raised /\ r.deleted_count = 1
                                                       /\ r.skipped_paths = <<>>)]]
          /\ IF r.raised
             THEN /\ resp' = [op |-> "delete", status |-> 500,
                              req |-> [path |-> pc[t].target, permanent |-> FALSE],
                              error |-> "exception"]
                  /\ UNCHANGED <<cache, queue>>
             ELSE /\ cache' = invalidate_cache(invalidate_cache(cache, pc[t].target),
                                               dirname(pc[t].target))
                  /\ queue' = _push_sse_deleted(queue, pc[t].target)
                  /\ resp' = [op |-> "delete", status |-> 200,
                              req |-> [path |-> pc[t].target, permanent |-> FALSE],
                              deleted_count |-> r.deleted_count,
                              skipped |-> r.skipped_paths]
    /\ UNCHANGED <<now, reqNo, scanLog, streams, getAt, event, pool>>

InitRace ==
    /\ fs \in {InitFs({}, {}, FALSE), InitFs({}, {}, TRUE), InitFs({DSB}, {}, FALSE)}
    /\ cache = EmptyCache
    /\ now = 0
    /\ queue = <<>>
    /\ resp = [op |-> "none"]
    /\ reqNo = 0
    /\ scanLog = 0
    /\ pc = IdleThreads
    /\ streams = NoStreams
    /\ getAt = NoWaits
    /\ event = NoEvent
    /\ pool = NoPool

NextRace ==
    \/ \E t \in Threads, p \in RaceTargets : trash_choose_dest(t, p)
    \/ \E t \in Threads : trash_move(t)

SpecRace == InitRace /\ [][NextRace]_vars

----------------------------------------------------------------------------
(* fast_dir_size over a tree with a VIP folder, small or large, denied or not *)

TiersFs(blocks) == BaseFs @@ (DM :> Entry("dir", 0)) @@ (DMX :> Entry("file", blocks))

TiersBlocks == {1, 8}
TiersUnreadable == {{}, {DM}, {DS}, {DM, DS}}
TiersUnstatable == {{}, {DM}, {DS}}
TiersPaths == {D, DM, DS}

TiersOracles ==
    {[du |-> (DS :> b) @@ (DM :> 8192), finder |-> (DM :> g), order |-> <<>>] :
        b \in {0, 12288}, g \in {0, 20480}}

InitTiers ==
    /\ \E blocks \in TiersBlocks, unreadable \in TiersUnreadable,
          unstatable \in TiersUnstatable :
          fs = [q \in DOMAIN TiersFs(blocks) |->
                  [TiersFs(blocks)[q] EXCEPT !.readable = (q \notin unreadable),
                                             !.statable = (q \notin unstatable)]]
    /\ cache = EmptyCache
    /\ now = 0
    /\ queue = <<>>
    /\ resp = [op |-> "none"]
    /\ reqNo = 0
    /\ scanLog = 0
    /\ pc = IdleThreads
    /\ streams = NoStreams
    /\ getAt = NoWaits
    /\ event = NoEvent
    /\ pool = NoPool

NextTiers == \E p \in TiersPaths, O \in TiersOracles : call_fast_dir_size(p, O)

SpecTiers == InitTiers /\ [][NextTiers]_vars

----------------------------------------------------------------------------
(* Level-0 scans sharing the worker pool *)

\* g with three files and two sub-directories of five files each, all of
\* different sizes
WorkFs ==
    BaseFs @@ (G :> Entry("dir", 0))
    @@ (GA :> Entry("file", 8)) @@ (GB :> Entry("file", 16))
    @@ (GC :> Entry("file", 24))
    @@ (GE :> Entry("dir", 0)) @@ (GF :> Entry("dir", 0))
    @@ [q \in {join(GE, <<n>>) : n \in {"a", "b", "c", "s", "t"}} |-> Entry("file", 8)]
    @@ [q \in {join(GF, <<n>>) : n \in {"a", "b", "c", "s", "t"}} |-> Entry("file", 16)]

WorkDepths == {2}
MaxScans == 2

\* a directory listing is handed to the pool at any level
submits_at_any_level(level, n) == n > 4

\* "if level == 0 and len(raw_entries) > 4": the listing is handed to the pool
submits(level, n) == level = 0 /\ n > 4

\* the futures of the entries es, for the coordinator or the task waiting
pool_tasks(t, es, depth, level, parent) ==
    [i \in 1..Len(es) |->
        [owner |-> t, idx |-> i, entry |-> es[i], depth |-> depth,
         level |-> level, parent |-> parent]]

\* _scan at level 0 up to the submission of its entries to _POOL
scan_submit(t, depth) ==
    /\ pc[t].at = "idle"
    /\ reqNo < MaxScans
    /\ submits(0, Len(scandir(fs, G)))
    /\ reqNo' = reqNo + 1
    /\ scanLog' = scanLog + 1
    /\ pool' = [pool EXCEPT
                  !.queue = @ \o pool_tasks(t, scandir(fs, G), depth, 0, <<>>),
                  !.done[t] = <<>>]
    /\ pc' = [pc EXCEPT ![t] = [at |-> "join", path |-> G, depth |-> depth,
                                 n |-> Len(scandir(fs, G))]]
    /\ UNCHANGED <<fs, cache, now, queue, resp, streams, getAt, event>>

\* an idle worker takes the oldest task of the work queue
worker_start ==
    /\ Cardinality(pool.running) < PoolWorkers
    /\ pool.queue # <<>>
    /\ pool' = [pool EXCEPT
                  !.queue = Tail(@),
                  !.running = @ \cup {[at |-> "run", task |-> Head(pool.queue),
                                       pending |-> 0]}]
    /\ UNCHANGED <<fs, cache, now, queue, resp, reqNo, scanLog, pc, streams, getAt, event>>

\* the worker of a task runs _scan_dir_entry(e, depth, max_children, level):
\* the _scan of a sub-directory lists it at level + 1 and either hands that
\* listing to the pool and waits for it, keeping the worker, or goes through
\* it itself; then the future completes
worker_step(task) ==
    \E r \in pool.running :
       /\ r.task = task
       /\ r.at = "join" => r.pending = 0
       /\ IF /\ r.at = "run"
             /\ isdir(fs, task.entry)
             /\ task.depth > 1
             /\ submits(task.level + 1, Len(scandir(fs, task.entry)))
          THEN pool' = [pool EXCEPT
                          !.queue = @ \o pool_tasks(task.owner, scandir(fs, task.entry),
                                                    task.depth - 1, task.level + 1,
                                                    <<task>>),
                          !.running = (@ \ {r})
                                      \cup {[at |-> "join", task |-> task,
                                             pending |-> Len(scandir(fs, task.entry))]}]
          ELSE IF task.parent = <<>>
          THEN pool' = [pool EXCEPT !.running = @ \ {r},
                                    !.done[task.owner] = Append(@, task.idx)]
          ELSE pool' = [pool EXCEPT
                          !.running =
                             {IF q.task = task.parent[1]
                              THEN [q EXCEPT !.pending = @ - 1] ELSE q :
                                 q \in pool.running \ {r}}]
       /\ UNCHANGED <<fs, cache, now, queue, resp, reqNo, scanLog, pc, streams, getAt, event>>

\* as_completed has yielded every future: sort, gap detection, truncation
scan_finalise(t) ==
    /\ pc[t].at = "join"
    /\ Len(pool.done[t]) = pc[t].n
    /\ \E O \in {[NoOracle EXCEPT !.order = pool.done[t]]} :
          resp' = [op |-> "_scan", path |-> pc[t].path, depth |-> pc[t].depth,
                   max_children |-> 500, thread |-> t,
                   data |-> _scan(fs, pc[t].path, pc[t].depth, 500, 0, O)]
    /\ pc' = [pc EXCEPT ![t] = [at |-> "idle"]]
    /\ pool' = [pool EXCEPT !.done[t] = <<>>]
    /\ UNCHANGED <<fs, cache, now, queue, reqNo, scanLog, streams, getAt, event>>

InitWorkers ==
    /\ fs = WorkFs
    /\ cache = EmptyCache
    /\ now = 0
    /\ queue = <<>>
    /\ resp = [op |-> "none"]
    /\ reqNo = 0
    /\ scanLog = 0
    /\ pc = IdleThreads
    /\ streams = NoStreams
    /\ getAt = NoWaits
    /\ event = NoEvent
    /\ pool = NoPool

\* the tasks a coordinator can hand to the pool
RootTasks ==
    {pool_tasks(t, scandir(WorkFs, G), d, 0, <<>>)[i] :
        t \in Threads, d \in WorkDepths, i \in 1..Len(scandir(WorkFs, G))}

NextWorkers ==
    \/ \E t \in Threads, d \in WorkDepths : scan_submit(t, d)
    \/ worker_start
    \/ \E r \in pool.running : worker_step(r.task)
    \/ \E t \in Threads : scan_finalise(t)

\* the workers run and every call inside a task returns
SpecWorkers ==
    /\ InitWorkers
    /\ [][NextWorkers]_vars
    /\ WF_vars(worker_start)
    /\ \A task \in RootTasks : WF_vars(worker_step(task))

----------------------------------------------------------------------------
(* scan_directory over folders whose names look like the tail of a key *)

\* "d_1", one token per character
D1 == join(Home, <<"d", "_", "1">>)
D1A == join(D1, <<"a">>)
D1S == join(D1, <<"s">>)
D1SB == join(D1S, <<"b">>)

KeysFs ==
    BaseFs @@ (D1 :> Entry("dir", 0)) @@ (D1A :> Entry("file", 24))
    @@ (D1S :> Entry("dir", 0)) @@ (D1SB :> Entry("file", 32))

KeysPaths == {D, D1}

InitKeys ==
    /\ fs = KeysFs
    /\ cache = EmptyCache
    /\ now = 0
    /\ queue = <<>>
    /\ resp = [op |-> "none"]
    /\ reqNo = 0
    /\ scanLog = 0
    /\ pc = IdleThreads
    /\ streams = NoStreams
    /\ getAt = NoWaits
    /\ event = NoEvent
    /\ pool = NoPool

NextKeys ==
    \/ \E p \in KeysPaths, d \in CallDepths, m \in CallMax :
          call_scan_directory(p, d, m, NoOracle)
    \/ Tick

SpecKeys == InitKeys /\ [][NextKeys]_vars

----------------------------------------------------------------------------
(* Properties of the scan tree *)

IsDirNode(n) == n.type = "directory"
IsSynthetic(n) == n.type \in {"protected", "other"}

\* a directory Node whose entries were listed and turned into children
Materialised(n) ==
    /\ IsDirNode(n)
    /\ "has_children" \in DOMAIN n
    /\ n.has_children = (n.children # <<>>)

RECURSIVE SizesAddUp(_)
SizesAddUp(n) ==
    /\ n.size >= 0
    /\ IsDirNode(n) =>
          /\ n.size >= SumSize(n.children)
          /\ n.size >= SumSize(SelectSeq(n.children, LAMBDA c : ~IsSynthetic(c)))
          /\ Materialised(n) => n.size = SumSize(n.children)
          /\ \A i \in 1..Len(n.children) : SizesAddUp(n.children[i])

ScanReturned == resp.op = "_scan"

\* C1: in every Node a scan returns, no size is negative, a directory's size
\* is at least the sum of its children's sizes, and it equals that sum when
\* the synthetic 'protected' and 'other' children are counted, at every
\* materialised directory of the tree.
C1_SizeIsSumOfChildren == ScanReturned => SizesAddUp(resp.data)

RECURSIVE HasSyntheticBelow(_)
HasSyntheticBelow(n) ==
    IsDirNode(n) /\ \E i \in 1..Len(n.children) :
        IsSynthetic(n.children[i]) \/ HasSyntheticBelow(n.children[i])

\* a scan whose root holds both a gap node and a truncation-free level-1
\* directory that itself holds a synthetic child
C1_Witness ==
    /\ ScanReturned
    /\ \E i \in 1..Len(resp.data.children) : resp.data.children[i].type = "protected"
    /\ \E i \in 1..Len(resp.data.children) :
          /\ IsDirNode(resp.data.children[i])
          /\ HasSyntheticBelow(resp.data.children[i])

\* the directory at path was listed by the scan
Listed(path) == isdir(fs, path) /\ fs[path].readable

\* the sizes of the entries a scan of path enumerates, whatever the fan-out
EnumeratedSum(path, depth, level) ==
    SumSize(SelectSeq(_scan(fs, path, depth, 500, level, resp.O).children,
                      LAMBDA c : ~IsSynthetic(c)))

\* the Node n of the directory at path shows the bytes du sees beyond the
\* enumerated ones as a 'protected' child
GapShown(n, path, depth, level) ==
    LET missing == du_size(resp.O, path) - EnumeratedSum(path, depth, level)
    IN missing > 102400 =>
          \E i \in 1..Len(n.children) :
              /\ n.children[i].type = "protected"
              /\ n.children[i].size = missing

\* C2: every listed directory scanned at level 0 or 1 whose du measurement
\* exceeds the enumerated children by more than 102,400 bytes has a
\* 'protected' child carrying the difference, for every fan-out limit.
C2_GapAlwaysShown ==
    ScanReturned /\ Listed(resp.path) =>
        /\ GapShown(resp.data, resp.path, resp.depth, 0)
        /\ \A i \in 1..Len(resp.data.children) :
              LET c == resp.data.children[i]
              IN (IsDirNode(c) /\ resp.depth > 1 /\ Listed(c.path)
                    /\ fs[c.path].statable)
                 => GapShown(c, c.path, resp.depth - 1, 1)

----------------------------------------------------------------------------
(* Properties of the delete endpoint *)

\* the step is the handling of one delete request
DeleteStep == reqNo' = reqNo + 1 /\ resp'.op = "delete"

DenyList ==
    {<<>>, << <<"Users">> >>, << <<"Users">>, <<"me">> >>, << <<"System">> >>,
     << <<"Library">> >>, << <<"Applications">> >>, << <<"usr">> >>,
     << <<"bin">> >>, << <<"sbin">> >>, << <<"etc">> >>, << <<"var">> >>,
     << <<"tmp">> >>, << <<"private">> >>}

C3_Step ==
    (DeleteStep /\ abspath(resp'.req.path) \in DenyList) =>
        /\ resp'.status = 403
        /\ fs' = fs
        /\ cache' = cache
        /\ queue' = queue

\* C3: a delete request whose resolved path is on the critical deny-list is
\* answered 403 and leaves the filesystem, the scan cache and the event
\* queue as they were.
C3_DenyListedRejected == [][C3_Step]_vars

\* a refusal while the cache holds a scan and the queue holds an event
C3_Witness ==
    /\ resp.op = "delete"
    /\ resp.status = 403
    /\ abspath(resp.req.path) \in DenyList
    /\ DOMAIN cache # {}
    /\ queue # <<>>

\* the step took at least one item away from where it was
Removed == \E p \in DOMAIN fs : p \notin DOMAIN fs'

\* the step put a 'deleted' event for path t at the tail of the queue
Placed(t) ==
    /\ Len(queue') = Len(queue) + 1
    /\ SubSeq(queue', 1, Len(queue)) = queue
    /\ queue'[Len(queue')].type = "deleted"
    /\ queue'[Len(queue')].path = t

C4_Step ==
    (DeleteStep /\ Removed) =>
        /\ cache' = EmptyCache
        /\ Placed(abspath(resp'.req.path))

\* C4: after any delete request that removed or moved at least one item the
\* scan cache is invalidated and a 'deleted' event for the target is on the
\* event queue.
C4_InvalidatedAndAnnounced == [][C4_Step]_vars

C4_StepUnlessFull ==
    (DeleteStep /\ Removed) =>
        /\ cache' = EmptyCache
        /\ IF Len(queue) < MaxQueue
           THEN Placed(abspath(resp'.req.path))
           ELSE queue' = queue

\* C4 (amended): after any delete request that removed or moved at least one
\* item the scan cache is invalidated, and a 'deleted' event for the target
\* is on the event queue unless the queue was already full, in which case
\* the event is dropped and the queue is as it was.
C4_InvalidatedAndAnnouncedUnlessFull == [][C4_StepUnlessFull]_vars

\* a partial delete after a scan: cache emptied, event at the tail
C4_Witness ==
    /\ resp.op = "delete"
    /\ resp.status = 200
    /\ resp.deleted_count > 0
    /\ resp.skipped # <<>>
    /\ scanLog > 0
    /\ cache = EmptyCache
    /\ queue # <<>>
    /\ queue[Len(queue)].type = "deleted"
    /\ queue[Len(queue)].path = abspath(resp.req.path)

DeleteAnswered == resp.op = "delete" /\ resp.status = 200

\* C5: when _rm_robust or _trash_robust returns an empty skipped list, the
\* target no longer exists at its path.
C5_EmptySkippedMeansGone ==
    (DeleteAnswered /\ resp.skipped = <<>>) => ~exists(fs, abspath(resp.req.path))

\* a whole directory moved to the Trash with nothing skipped
C5_Witness ==
    /\ DeleteAnswered
    /\ resp.skipped = <<>>
    /\ ~resp.req.permanent
    /\ resp.req.path = D
    /\ ~exists(fs, D)
    /\ exists(fs, join(join(join(TrashDir, <<"d">>), <<"s">>), <<"b">>))

\* the paths a skipped list names
SkippedPaths ==
    IF resp.req.permanent
    THEN {resp.skipped[i] : i \in 1..Len(resp.skipped)}
    ELSE {resp.skipped[i].src : i \in 1..Len(resp.skipped)}

\* C6: when the skipped list is not empty, every path in it still exists at
\* or under the target, and every descendant of the target that is not in
\* the list no longer exists.
C6_SkippedIsWhatRemains ==
    (DeleteAnswered /\ resp.skipped # <<>>) =>
        LET t == abspath(resp.req.path)
        IN /\ \A p \in SkippedPaths : exists(fs, p) /\ IsPrefix(t, p)
           /\ \A q \in Subtree(fs, t) \ {t} : q \in SkippedPaths

C7_Step ==
    (DeleteStep /\ resp'.status = 200 /\ resp'.req.permanent) =>
        LET t == abspath(resp'.req.path)
            before == Subtree(fs, t)
            after == Subtree(fs', t)
            some_skipped == resp'.skipped # <<>>
        IN /\ (resp'.deleted_count = 0 /\ some_skipped)
                <=> (before # {} /\ after = before)
           /\ (resp'.deleted_count > 0 /\ some_skipped)
                <=> (after # {} /\ after # before)

\* C7: _rm_robust returns (0, non-empty) exactly when nothing at or under the
\* target was removed, and (>0, non-empty) exactly when some but not all of
\* it was removed, for file targets and for directory targets.
C7_CountTellsPartialFromNone == [][C7_Step]_vars

\* base with " k" put between its stem and its extension
Numbered(base, k) ==
    LET sp == splitext(basename(base))
    IN join(dirname(base), sp[1] \o <<" ">> \o str(k) \o sp[2])

\* where the claim says the target goes
ExpectedDest(f, t) ==
    LET base == join(TrashDir, basename(t))
    IN IF base \notin DOMAIN f THEN base
       ELSE Numbered(base, CHOOSE k \in 1..(Cardinality(DOMAIN f) + 1) :
                              /\ Numbered(base, k) \notin DOMAIN f
                              /\ \A j \in 1..(k - 1) : Numbered(base, j) \in DOMAIN f)

Rebase(q, t, d) == d \o SubSeq(q, Len(t) + 1, Len(q))

\* a whole-target move put everything of the target under the expected name
MovedToExpectedDest(t) ==
    (exists(fs, t) /\ resp'.skipped = <<>>) =>
        \A q \in Subtree(fs, t) :
            LET q2 == Rebase(q, t, ExpectedDest(fs, t))
            IN q2 \in DOMAIN fs' /\ fs'[q2] = fs[q]

TrashStep == DeleteStep /\ resp'.status = 200 /\ ~resp'.req.permanent

C8_Step ==
    TrashStep =>
        LET t == abspath(resp'.req.path)
        IN /\ \A q \in Subtree(fs, TrashDir) \ {TrashDir} :
                  q \in DOMAIN fs' /\ fs'[q] = fs[q]
           /\ MovedToExpectedDest(t)

\* C8: a move to the Trash leaves every entry that was already in the Trash
\* in place and unchanged, and puts the target at ~/.Trash/<basename> when
\* that name is free, else at '<name> k<ext>' for the smallest k >= 1 that
\* is free.
C8_TrashNeverOverwrites == [][C8_Step]_vars

C8_StepOthers ==
    TrashStep =>
        LET t == abspath(resp'.req.path)
        IN /\ \A q \in Subtree(fs, TrashDir) \ ({TrashDir} \cup Subtree(fs, t)) :
                  q \in DOMAIN fs' /\ fs'[q] = fs[q]
           /\ MovedToExpectedDest(t)

\* C8, for the entries that are not the target's own: a move to the Trash
\* leaves every entry that was already in the Trash and is not at or under
\* the target in place and unchanged, and
\* puts the target at ~/.Trash/<basename> when that name is free, else at
\* '<name> k<ext>' for the smallest k >= 1 that is free.
C8_TrashNeverOverwritesOthers == [][C8_StepOthers]_vars

\* the second collision on a.txt: a.txt, 'a 1.txt' and 'a 2.txt' side by side
C8_SecondCollision ==
    /\ DeleteAnswered
    /\ ~resp.req.permanent
    /\ resp.skipped = <<>>
    /\ exists(fs, TA) /\ fs[TA].blocks = 24
    /\ exists(fs, join(TrashDir, <<"a", " ", "1", ".txt">>))
    /\ exists(fs, join(TrashDir, <<"a", " ", "2", ".txt">>))

----------------------------------------------------------------------------
(* Properties of the scan cache *)

\* the step is the handling of one scan request that was answered 200
ScanStep == reqNo' = reqNo + 1 /\ resp'.op = "scan" /\ resp'.status = 200

\* the Node answered is what a scan of the filesystem produces now
FreshResult ==
    \E O \in ServerOracles :
        resp'.data = _scan(fs, abspath(resp'.req.path), resp'.req.depth, 500, 0, O)

C9_Step ==
    (ScanStep /\ resp'.key \in DOMAIN cache /\ now - cache[resp'.key][1] >= 120) =>
        /\ scanLog' = scanLog + 1
        /\ FreshResult
        /\ cache'[resp'.key] = <<now', resp'.data>>
        /\ now' >= now

\* C9: a lookup that finds a cache entry of age >= 120 s does not answer
\* with it: it scans afresh and replaces the entry with the new Node and a
\* new timestamp.
C9_ExpiredEntryRescanned == [][C9_Step]_vars

\* the one key was scanned twice with no delete in between, and the entry
\* carries the later timestamp
C9_Witness ==
    /\ resp.op = "scan"
    /\ resp.status = 200
    /\ scanLog = 2
    /\ queue = <<>>
    /\ DOMAIN cache = {resp.key}
    /\ cache[resp.key][1] >= 120

C10_Step ==
    (/\ ScanStep
     /\ resp.op = "scan" /\ resp.status = 200
     /\ resp.key = resp'.key
     /\ now - resp.at < 120) =>
        /\ resp'.data = resp.data
        /\ scanLog' = scanLog

\* C10: two scan requests with the same key, the second less than 120 s
\* after the first and no invalidation in between, are answered with the
\* identical Node, and the second performs no filesystem scan.
C10_TwoCallsOneScan == [][C10_Step]_vars

C10_StepFromStamp ==
    (ScanStep /\ resp'.key \in DOMAIN cache /\ now - cache[resp'.key][1] < 120) =>
        /\ resp'.data = cache[resp'.key][2]
        /\ scanLog' = scanLog
        /\ cache' = cache

\* C10 (amended): a scan request made less than 120 s after the fresh scan
\* that stored the entry of its key, with no invalidation in between, is
\* answered with the identical Node and performs no filesystem scan.
C10_HitWithinTtlOfStamp == [][C10_StepFromStamp]_vars

\* a request answered from an entry stamped before the request was made
C10_Witness ==
    /\ resp.op = "scan"
    /\ resp.status = 200
    /\ scanLog = 1
    /\ resp.key \in DOMAIN cache
    /\ resp.at > cache[resp.key][1]
    /\ resp.data = cache[resp.key][2]

----------------------------------------------------------------------------
(* Properties of invalidation *)

C11_Step ==
    /\ (reqNo' = reqNo + 1 /\ resp'.op = "invalidate_cache") => DOMAIN cache' = {}
    /\ (reqNo' = reqNo + 1 /\ resp.op = "invalidate_cache"
          /\ resp'.op = "scan_directory") => scanLog' = scanLog + 1

----------------------------------------------------------------------------
(* Properties of the cache under concurrent requests *)

\* thread t is between the cache lookup and the cache store of scan_directory
InLookupThenStore(t) == pc[t].at # "idle"

\* the step is a delete request that went on to invalidate_cache
ClearStep == DeleteStep /\ resp'.status = 200

C12_Step == ClearStep => \A t \in Threads : ~InLookupThenStore(t)

\* C12: the lookup-then-store of scan_directory and the clear of
\* invalidate_cache exclude each other (one lock guards every access of the
\* cache): the cache is never cleared while a thread is between its lookup
\* and its store.
C12_CacheSectionsExclusive == [][C12_Step]_vars

----------------------------------------------------------------------------
(* Properties of the order of children *)

\* the same call with the pool tasks completing in submission order
InSubmissionOrder ==
    _scan(fs, resp.path, resp.depth, resp.max_children, 0,
          [resp.O EXCEPT !.order = <<>>])

\* C13: for a fixed filesystem the children sequence a scan returns is the
\* same for every order in which the pool tasks of the root's entries
\* complete, siblings of equal size included.
C13_OrderIndependentOfScheduling ==
    ScanReturned => resp.data.children = InSubmissionOrder.children

----------------------------------------------------------------------------
(* Properties of truncation *)

\* the children the same scan produces when nothing is truncated
Untruncated(path, depth, level) ==
    _scan(fs, path, depth, 500, level, resp.O).children

\* C14: when a directory has more children than the fan-out limit, the kept
\* children are the largest ones: no child folded into the 'other' node is
\* larger than a kept child.
C14_KeptAreTheLargest ==
    (ScanReturned /\ Listed(resp.path)) =>
        LET full == Untruncated(resp.path, resp.depth, 0)
            m == resp.max_children
        IN Len(full) > m =>
              \A i \in 1..m, j \in (m + 1)..Len(full) : full[j].size <= full[i].size

\* the Node n of the directory at path keeps the first max_children children
\* and folds the others into one 'other' node with their count and size
RECURSIVE TruncatedAsClaimed(_, _, _, _)
TruncatedAsClaimed(n, path, depth, level) ==
    LET full == Untruncated(path, depth, level)
        m == resp.max_children
        got == n.children
    IN /\ IF Len(full) > m
          THEN /\ Len(got) = m + 1
               /\ \A i \in 1..m : /\ got[i].type # "other"
                                  /\ got[i].path = full[i].path
                                  /\ got[i].type = full[i].type
                                  /\ got[i].size = full[i].size
               /\ got[m + 1].type = "other"
               /\ got[m + 1].name = str(Len(full) - m) \o <<" more items">>
               /\ got[m + 1].size = SumSize(SubSeq(full, m + 1, Len(full)))
          ELSE /\ Len(got) = Len(full)
               /\ \A i \in 1..Len(got) : got[i].type # "other"
       /\ \A i \in 1..Len(got) :
             (IsDirNode(got[i]) /\ depth > 1 /\ Listed(got[i].path)
                /\ fs[got[i].path].statable)
             => TruncatedAsClaimed(got[i], got[i].path, depth - 1, level + 1)

----------------------------------------------------------------------------
(* Properties of the scan endpoint *)

\* the step is the handling of one scan request
ScanRequestStep == reqNo' = reqNo + 1 /\ resp'.op = "scan"

C16_Step ==
    (ScanRequestStep /\ resp'.status = 200) =>
        \E d \in 1..10 :
            /\ resp'.key = cache_key(abspath(resp'.req.path), d, 500)
            /\ resp'.key \in DOMAIN cache'

\* C16: whatever integer depth the client sends (0, negative and above 10
\* included), the depth of the scan and of its cache key lies in 1..10.
C16_DepthClamped == [][C16_Step]_vars

IsDirectory(p) == p \in DOMAIN fs /\ fs[p].kind = "dir"

C17_Step ==
    (ScanRequestStep /\ ~IsDirectory(resp'.req.path)) =>
        /\ resp'.status = 400
        /\ cache' = cache
        /\ scanLog' = scanLog
        /\ fs' = fs

\* C17: a scan request whose path does not exist or is not a directory is
\* answered 400 before the scanner is called: no scan runs and the cache
\* is left as it was.
C17_NonDirectoryRejected == [][C17_Step]_vars

\* a nonexistent path refused while the cache holds an earlier scan
C17_Witness ==
    /\ resp.op = "scan"
    /\ resp.status = 400
    /\ resp.req.path \notin DOMAIN fs
    /\ DOMAIN cache # {}
    /\ scanLog = 1

----------------------------------------------------------------------------
(* Properties of the depth budget *)

\* below n there are at most budget levels of children, and a directory
\* with no budget left has none
RECURSIVE WithinDepth(_, _)
WithinDepth(n, budget) ==
    IsDirNode(n) =>
        IF budget = 0
        THEN n.children = <<>>
        ELSE \A i \in 1..Len(n.children) : WithinDepth(n.children[i], budget - 1)

\* C18: in the tree of scan(root, depth d >= 1) every directory Node at
\* distance d from the root has an empty children list, so the tree is
\* never higher than d.
C18_HeightAtMostDepth ==
    (ScanReturned /\ resp.depth >= 1) => WithinDepth(resp.data, resp.depth)

\* at depth 2 the non-empty directory d/s/t is a size-only grandchild
C18_Witness ==
    /\ ScanReturned
    /\ resp.depth = 2
    /\ \E i \in 1..Len(resp.data.children) :
          /\ IsDirNode(resp.data.children[i])
          /\ \E j \in 1..Len(resp.data.children[i].children) :
                LET g == resp.data.children[i].children[j]
                IN /\ IsDirNode(g)
                   /\ g.path = DST
                   /\ g.children = <<>>
                   /\ g.size > 0
                   /\ Listed(DST)

----------------------------------------------------------------------------
(* Properties of the event queue *)

QueueFull == Len(queue) = MaxQueue

C19_Step ==
    /\ Len(queue') <= MaxQueue
    /\ QueueFull => queue' = queue
    /\ (QueueFull /\ DeleteStep /\ resp'.status # 403) => resp'.status = 200

----------------------------------------------------------------------------
(* Properties of the event streams *)

Connected(c) == streams[c] # <<>>

\* the step takes the oldest event off the queue
Dequeued == queue # <<>> /\ queue' = Tail(queue)

C20_Step ==
    Dequeued =>
        \A c \in Clients :
            Connected(c) => streams'[c] = Append(streams[c], Head(queue))

\* C20: every event taken off the queue is streamed to all the clients
\* connected at that time: with two connected clients each of them
\* receives every event.
C20_EveryClientGetsEveryEvent == [][C20_Step]_vars

\* what a stream may do in one step: open with the 'connected' record,
\* yield the oldest queued message, or yield a keepalive after 20 idle seconds
C21_Step ==
    \A c \in Clients :
        /\ streams[c] = <<>> =>
              streams'[c] \in {<<>>, <<[type |-> "connected"]>>}
        /\ streams[c] # <<>> =>
              \/ streams'[c] = streams[c]
              \/ /\ queue # <<>>
                 /\ queue' = Tail(queue)
                 /\ streams'[c] = Append(streams[c], Head(queue))
              \/ /\ queue = <<>>
                 /\ now >= getAt[c] + 20
                 /\ streams'[c] = Append(streams[c], [type |-> "keepalive"])
                 /\ getAt'[c] = now
        /\ (streams[c] # <<>> /\ Len(streams[c]) < MaxStream) =>
              now' <= getAt[c] + 20

\* C21: every stream starts with the 'connected' record; after that it
\* yields the queued messages oldest first, and when 20 seconds have passed
\* with nothing to yield it yields a keepalive and goes on waiting: a
\* waiting stream never stays silent for more than 20 seconds.
C21_ConnectedThenFifoThenKeepalive == [][C21_Step]_vars

\* a stream that opened, yielded an event and later a keepalive
C21_Witness ==
    \E c \in Clients :
        /\ Len(streams[c]) >= 3
        /\ streams[c][1].type = "connected"
        /\ streams[c][2].type \in {"created", "deleted"}
        /\ streams[c][Len(streams[c])].type = "keepalive"
        /\ now >= 20

----------------------------------------------------------------------------
(* Properties of the watcher *)

\* the fixed high-churn substrings, as text
NoiseText ==
    {<<"/", "Library", "/", "Caches", "/">>, <<"/", "Library", "/", "Logs", "/">>,
     <<"/", ".Trash", "/">>, <<"/", "node_modules", "/">>,
     <<"/", "__pycache__", "/">>, <<"/", ".git", "/">>}

Occurs(pat, text) ==
    \E k \in 1..(Len(text) - Len(pat) + 1) : SubSeq(text, k, k + Len(pat) - 1) = pat

ContainsNoise(path) == \E pat \in NoiseText : Occurs(pat, PathStr(path))

\* the step is a callback of the watcher for the event now in `event`
WatcherStep == event'.type # "none" /\ (event' # event \/ queue' # queue)

C22_Step ==
    WatcherStep =>
        IF ContainsNoise(event'.path)
        THEN queue' = queue
        ELSE Len(queue) < MaxQueue =>
                /\ Len(queue') = Len(queue) + 1
                /\ SubSeq(queue', 1, Len(queue)) = queue
                /\ queue'[Len(queue')].type = event'.type
                /\ queue'[Len(queue')].path = event'.path

AncestorUnderRoot(path) ==
    IF Len(path) >= Len(Home) + 2 /\ SubSeq(path, 1, Len(Home)) = Home
    THEN SubSeq(path, 1, Len(Home) + 1)
    ELSE Home

\* C23: every message on the event queue, whether the watcher or the delete
\* endpoint put it there, names as its root the ancestor of its path one
\* level below the watched root (the watched root itself for an entry
\* directly in it).
C23_RootIsShallowAncestor ==
    \A i \in 1..Len(queue) : queue[i].root = AncestorUnderRoot(queue[i].path)

\* the same for the messages of the watcher only
C23_Step ==
    (WatcherStep /\ Len(queue') = Len(queue) + 1) =>
        queue'[Len(queue')].root = AncestorUnderRoot(event'.path)

C23_WatcherRootIsShallowAncestor == [][C23_Step]_vars

----------------------------------------------------------------------------
(* Properties of the disk breakdown *)

DiskInfoReturned == resp.op = "disk-info"

\* C24: the sizes of the buckets that /api/disk-info returns add up to the
\* used bytes of the volume, within a small tolerance, whatever the measured
\* category sizes and the reported used bytes are.
C24_BucketsSumToUsed ==
    DiskInfoReturned =>
        /\ SumSize(resp.data.categories) - resp.data.used <= 1
        /\ resp.data.used - SumSize(resp.data.categories) <= 1

SizeOfBucket(cats, name) == SumSize(SelectSeq(cats, LAMBDA c : c.name = name))

\* the buckets before reconciliation, for the filesystem and helper answers
\* of the answered request
Categorized == categorize_home_storage(fs, resp.O)

C25_Gap == Max(0, resp.data.used - SumSize(Categorized))

----------------------------------------------------------------------------
(* Properties of symbolic links *)

IsLink(p) == p \in DOMAIN fs /\ fs[p].kind = "symlink"

\* the bytes of the files and links below a directory, links not followed
RECURSIVE OwnBytes(_)
OwnBytes(p) ==
    IF fs[p].kind = "dir"
    THEN LET kids == scandir(fs, p)
         IN SumSize([i \in 1..Len(kids) |-> [size |-> OwnBytes(kids[i])]])
    ELSE fs[p].blocks * 512

\* in the tree below n, a link is a leaf of the link's own size, nothing
\* lies beyond a link, and a listed directory adds its children up
RECURSIVE LinksAreLeaves(_)
LinksAreLeaves(n) ==
    /\ n.type # "other" =>
          \A k \in 1..(Len(n.path) - 1) : ~IsLink(SubSeq(n.path, 1, k))
    /\ IsLink(n.path) =>
          n.type = "file" /\ n.size = fs[n.path].blocks * 512
    /\ IsDirNode(n) =>
          /\ Materialised(n) => n.size = SumSize(n.children)
          /\ \A i \in 1..Len(n.children) : LinksAreLeaves(n.children[i])

FastDirSizeReturned == resp.op = "fast_dir_size"

\* the scan half of C26
C26_ScanCountsTheLinkItself == ScanReturned => LinksAreLeaves(resp.data)

\* C26: a symbolic link adds exactly the size of the link itself to the
\* total of the directory it is in, and what it points to is neither
\* traversed nor measured, in a scan as well as in fast_dir_size.
C26_LinkCountsOwnSizeOnly ==
    /\ ScanReturned => LinksAreLeaves(resp.data)
    /\ FastDirSizeReturned => resp.size = OwnBytes(resp.path)

----------------------------------------------------------------------------
(* Properties relating fast_dir_size to the scan *)

\* nothing at or below p is access-denied
FullyReadable(p) == \A q \in Subtree(fs, p) : fs[q].readable /\ fs[q].statable

\* the children of a Node that stand for entries of the directory
EntryChildren(n) == SelectSeq(n.children, LAMBDA c : ~IsSynthetic(c))
ReadableChildren(n) ==
    SelectSeq(EntryChildren(n), LAMBDA c : fs[c.path].readable /\ fs[c.path].statable)

\* C27: fast_dir_size of a directory is at least the sum of the sizes a
\* scan of it gives to its readable children, and equal to it when nothing
\* below is access-denied; so a fully readable sub-directory has the size
\* fast_dir_size gives it whether the scan collapses or expands it.
C27_MeasureMatchesScan ==
    (ScanReturned /\ resp.max_children = 500 /\ fs[resp.path].readable) =>
        LET measured == fast_dir_size(fs, resp.path, resp.O)
        IN /\ measured >= SumSize(ReadableChildren(resp.data))
           /\ FullyReadable(resp.path) =>
                 measured = SumSize(EntryChildren(resp.data))
           /\ \A i \in 1..Len(resp.data.children) :
                 LET c == resp.data.children[i]
                 IN (IsDirNode(c) /\ FullyReadable(c.path)) =>
                       c.size = fast_dir_size(fs, c.path, resp.O)

----------------------------------------------------------------------------
(* Properties of the outcome of a delete request *)

\* full success, partial removal with a skipped list, or full denial
IsDeletionOutcome(r) ==
    /\ r.status = 200
    /\ \/ r.skipped = <<>>
       \/ r.skipped # <<>> /\ r.deleted_count > 0
       \/ r.skipped # <<>> /\ r.deleted_count = 0

C28_Step ==
    (DeleteStep /\ abspath(resp'.req.path) \notin DenyList) => IsDeletionOutcome(resp')

\* C28: every delete request for a path that is not on the deny-list is
\* answered with one of the three deletion outcomes and never with an
\* error: a failure inside _rm_robust or _trash_robust, the creation of the
\* destination directories in the Trash included, ends up in the skipped
\* list.
C28_NeverAHardError == [][C28_Step]_vars

----------------------------------------------------------------------------
(* Properties of the helper processes *)

\* C29: every call of a helper process (du, the Finder query, /bin/rm) is
\* bounded by a timeout: a thread that waits for a helper returns in the
\* end even when the helper never terminates.
C29_EveryHelperCallReturns ==
    \A t \in Threads : InSubprocess(t) ~> ~InSubprocess(t)

\* the same for the two helpers of the size measurement
C29_SizeHelperCallReturns ==
    \A t \in Threads :
        (InSubprocess(t) /\ pc[t].fn \in {"du_size", "get_finder_size"})
            ~> ~InSubprocess(t)

----------------------------------------------------------------------------
(* Properties of a scan that meets unlistable directories *)

DuAnswer(O, q) == IF q \in DOMAIN O.du THEN O.du[q] ELSE 0
FinderAnswer(O, q) == IF q \in DOMAIN O.finder THEN O.finder[q] ELSE 0

Denied(q) == fs[q].kind = "dir" /\ (~fs[q].readable \/ ~fs[q].statable)

\* the child Node of n for the entry q, or None
ChildFor(n, q) ==
    IF \E i \in 1..Len(n.children) : n.children[i].path = q /\ ~IsSynthetic(n.children[i])
    THEN n.children[CHOOSE i \in 1..Len(n.children) :
                       n.children[i].path = q /\ ~IsSynthetic(n.children[i])]
    ELSE None

\* an unlistable root comes back as an empty directory Node of du's size
RootAsClaimed ==
    ~fs[resp.path].readable =>
        /\ resp.data.type = "directory"
        /\ resp.data.children = <<>>
        /\ resp.data.size = DuAnswer(resp.O, resp.path)

\* every entry of a listable root has its Node, whatever its siblings are
SiblingsScanned ==
    fs[resp.path].readable =>
        \A q \in ChildrenOf(fs, resp.path) :
            (IF fs[q].statable THEN Last(q) # <<".DS_Store">> ELSE fs[q].kind = "dir")
                => ChildFor(resp.data, q) # None

\* the size the fallback of the size probe gives a denied sub-directory:
\* the Finder's for a collapsed, stat-able folder of VIP_FOLDERS, else du's
FallbackSize(q) ==
    IF resp.depth <= 1 /\ fs[q].statable /\ Last(q) \in {<<"Messages">>}
    THEN FinderAnswer(resp.O, q)
    ELSE DuAnswer(resp.O, q)

\* C30: a scan of a root that cannot be listed returns a directory Node
\* with no children and du's size (0 when du fails); a sub-directory that
\* cannot be listed or stat-ed is in its parent as a directory Node with no
\* children and du's size, and its siblings are scanned all the same.
C30_DeniedDirsAreEmptyNodesOfDuSize ==
    ScanReturned =>
        /\ RootAsClaimed
        /\ SiblingsScanned
        /\ fs[resp.path].readable =>
              \A q \in ChildrenOf(fs, resp.path) :
                  Denied(q) =>
                      /\ ChildFor(resp.data, q).type = "directory"
                      /\ ChildFor(resp.data, q).children = <<>>
                      /\ ChildFor(resp.data, q).size = DuAnswer(resp.O, q)

\* C30 (amended): the same, where the size of a denied sub-directory is the
\* answer of the fallback size probe: du's, except that a folder of
\* VIP_FOLDERS that can be stat-ed and is not expanded gets the Finder's.
C30_DeniedDirsAreEmptyNodesOfFallbackSize ==
    ScanReturned =>
        /\ RootAsClaimed
        /\ SiblingsScanned
        /\ fs[resp.path].readable =>
              \A q \in ChildrenOf(fs, resp.path) :
                  Denied(q) =>
                      /\ ChildFor(resp.data, q).type = "directory"
                      /\ ChildFor(resp.data, q).children = <<>>
                      /\ ChildFor(resp.data, q).size = FallbackSize(q)

\* two denied sub-directories with sizes from du and from the Finder, next
\* to a file that was scanned
C30_Witness ==
    /\ ScanReturned
    /\ resp.path = D
    /\ ~fs[DS].readable
    /\ ~fs[DM].readable
    /\ ChildFor(resp.data, DS) # None
    /\ ChildFor(resp.data, DS).size = 12288
    /\ ChildFor(resp.data, DM) # None
    /\ ChildFor(resp.data, DM).size = 20480
    /\ DuAnswer(resp.O, DM) = 8192
    /\ ChildFor(resp.data, DA) # None

\* an unlistable root answered with du's size
C30_WitnessRoot ==
    /\ ScanReturned
    /\ ~fs[resp.path].readable
    /\ resp.data.size = 16384

----------------------------------------------------------------------------
(* Properties of the cache under concurrent scans and deletions *)

\* a call of scan_directory answered from the cache
CacheHitStep ==
    /\ reqNo' = reqNo + 1
    /\ pc' = pc
    /\ resp'.op = "scan_directory"

\* the trees a scan of the present filesystem can give for the key
CurrentTrees(key) ==
    {_scan(fs, D, d, 500, 0, O) : d \in {e \in ThreadDepths : cache_key(D, e, 500) = key},
                                  O \in ThreadOracles}

\* C31: a cache hit never serves a Node computed from the filesystem as it
\* was before a completed deletion, even when the scan that computed it was
\* in progress while the deletion ran: what a hit returns is a scan of the
\* filesystem as the last deletion left it.
C31_Step == CacheHitStep => resp'.data \in CurrentTrees(resp'.key)

C31_NoStaleHitAfterDelete == [][C31_Step]_vars

----------------------------------------------------------------------------
(* Properties of concurrent moves to the Trash *)

\* both threads have moved a whole item, of the same name, to the Trash
BothMovedSameName ==
    /\ \A t \in Threads : pc[t].at = "done" /\ pc[t].moved_whole
    /\ pc[1].target # pc[2].target
    /\ Last(pc[1].target) = Last(pc[2].target)

\* C32: two concurrent moves to the Trash of sources with the same basename
\* never select the same destination, and after both have completed the
\* Trash holds both items under distinct names.
C32_ConcurrentMovesKeepBoth ==
    BothMovedSameName =>
        /\ pc[1].primary_dest # pc[2].primary_dest
        /\ \A t \in Threads : exists(fs, pc[t].primary_dest)

----------------------------------------------------------------------------
(* Properties of the order of a directory's children, at every level *)

\* the children are directories, then files, each by non-increasing size,
\* then at most a protected node and a truncation node
ChildrenInOrder(cs) ==
    \A i, j \in 1..Len(cs) :
        i < j =>
            /\ cs[i].type = "file" => cs[j].type # "directory"
            /\ IsSynthetic(cs[i]) => IsSynthetic(cs[j])
            /\ (cs[i].type = cs[j].type /\ ~IsSynthetic(cs[i])) => cs[i].size >= cs[j].size

RECURSIVE OrderedBelow(_)
OrderedBelow(n) ==
    IF n.type = "directory"
    THEN /\ ChildrenInOrder(n.children)
         /\ \A i \in 1..Len(n.children) : OrderedBelow(n.children[i])
    ELSE "children" \notin DOMAIN n

\* C33: in every directory Node of a scan's result the directory children
\* come first, largest first, then the file children, largest first, and a
\* protected or truncation node comes only after them; a file Node has no
\* children.
C33_DirsThenFilesBySize == ScanReturned => OrderedBelow(resp.data)

\* the task of a small file completed first, and the result still lists the
\* two directories, then the files from largest to smallest
C33_Witness ==
    /\ ScanReturned
    /\ resp.max_children = 500
    /\ resp.O.order[1] = 1
    /\ Len(resp.data.children) = 5
    /\ resp.data.children[1].type = "directory"
    /\ resp.data.children[2].type = "directory"
    /\ resp.data.children[3].type = "file"
    /\ resp.data.children[3].size = 16 * 512
    /\ resp.data.children[4].size = 8 * 512
    /\ resp.data.children[5].type = "file"

----------------------------------------------------------------------------
(* Properties of the fallback walk of a permanent deletion *)

\* the filesystem as the bulk removal of the request leaves it
AfterBulk == rm_rf(fs, abspath(resp'.req.path))

\* the walk reaches q: every directory from the target down to q's parent
\* can be listed
Walked(f, t, q) ==
    \A i \in Len(t)..(Len(q) - 1) : f[SubSeq(q, 1, i)].readable

\* C34: when the target directory still exists after the bulk removal, the
\* fallback walk attempts an individual removal of every remaining file and
\* an empty-directory removal of every remaining directory, and records as
\* skipped only entries that are still present afterwards.
C34_Step ==
    (/\ DeleteStep
     /\ resp'.status = 200
     /\ resp'.req.permanent
     /\ isdir(AfterBulk, abspath(resp'.req.path))) =>
        LET t == abspath(resp'.req.path)
            calls == _rm_robust_calls(AfterBulk, t)
        IN /\ \A q \in Subtree(AfterBulk, t) :
                 Walked(AfterBulk, t, q) =>
                     IF AfterBulk[q].kind = "dir"
                     THEN [fn |-> "os.rmdir", path |-> q] \in calls
                     ELSE [fn |-> "os.remove", path |-> q] \in calls
           /\ \A i \in 1..Len(resp'.skipped) : exists(fs', resp'.skipped[i])

C34_FallbackAttemptsEveryRemoval == [][C34_Step]_vars

\* the same for directories only, and for what is recorded
C34_StepDirs ==
    (/\ DeleteStep
     /\ resp'.status = 200
     /\ resp'.req.permanent
     /\ isdir(AfterBulk, abspath(resp'.req.path))) =>
        LET t == abspath(resp'.req.path)
            calls == _rm_robust_calls(AfterBulk, t)
        IN /\ \A q \in Subtree(AfterBulk, t) :
                 (Walked(AfterBulk, t, q) /\ AfterBulk[q].kind = "dir") =>
                     [fn |-> "os.rmdir", path |-> q] \in calls
           /\ \A i \in 1..Len(resp'.skipped) : exists(fs', resp'.skipped[i])

C34_FallbackAttemptsEveryRmdir == [][C34_StepDirs]_vars

----------------------------------------------------------------------------
(* Properties of the fallback tiers of fast_dir_size *)

\* enumeration or stat of p raises
Refused(p) == ~fs[p].readable \/ ~fs[p].statable

\* the bytes of the files below p
BytesBelow(p) ==
    SumSize([i \in 1..Len(InOrder({q \in Subtree(fs, p) : fs[q].kind = "file"})) |->
               [size |-> fs[InOrder({q \in Subtree(fs, p) : fs[q].kind = "file"})[i]].blocks
                         * 512]])

\* C35: fast_dir_size starts du for a subtree only when enumerating or
\* stat-ing that subtree raised, and asks the Finder only about an entry
\* named in the protected-folder set whose enumeration was refused or gave
\* less than 1024 bytes; a subtree enumerated with a plausible result starts
\* no helper.
C35_HelpersOnlyAsFallback ==
    FastDirSizeReturned =>
        \A c \in resp.calls :
            /\ c.fn \in {"du", "osascript"}
            /\ c.fn = "du" => Refused(c.path)
            /\ c.fn = "osascript" =>
                  /\ Last(c.path) \in {<<"Messages">>, <<"Safari">>, <<"Mail">>}
                  /\ Refused(c.path) \/ BytesBelow(c.path) < 1024

\* all three cases in one call: du for the refused directory s, the Finder
\* for a listed Messages folder of 512 bytes
C35_Witness ==
    /\ FastDirSizeReturned
    /\ resp.path = D
    /\ resp.calls = {[fn |-> "du", path |-> DS], [fn |-> "osascript", path |-> DM]}
    /\ ~Refused(DM)

\* a Messages folder of 4096 bytes and a readable s: no helper at all
C35_WitnessNoHelper ==
    /\ FastDirSizeReturned
    /\ resp.path = D
    /\ resp.calls = {}
    /\ BytesBelow(DM) = 4096

----------------------------------------------------------------------------
(* Properties of the count in a protected node *)

\* the sub-directories of p that cannot be listed or stat-ed
UnreadableSubdirs(p) ==
    {q \in ChildrenOf(fs, p) : fs[q].kind = "dir" /\ (~fs[q].readable \/ ~fs[q].statable)}

\* the protected node of n, if it has one, reports the unreadable
\* sub-directories of n's directory
CountIsUnreadable(n) ==
    \A i \in 1..Len(n.children) :
        n.children[i].type = "protected" =>
            n.children[i].name =
                <<"Protected data (">>
                \o str(Cardinality(UnreadableSubdirs(n.path)))
                \o <<" restricted)">>

\* C36: the count a protected node reports is the number of sub-directories
\* of the scanned directory that could not be read, at every depth; readable
\* sub-directories that are empty or were collapsed to size-only Nodes are
\* not counted.
C36_CountIsUnreadableDirs ==
    ScanReturned =>
        /\ CountIsUnreadable(resp.data)
        /\ \A i \in 1..Len(resp.data.children) :
              (resp.data.children[i].type = "directory"
               /\ "children" \in DOMAIN resp.data.children[i])
                  => CountIsUnreadable(resp.data.children[i])

----------------------------------------------------------------------------
(* Properties of a delete request for a path that does not exist *)

\* C37: a delete request for a path that does not exist (and is not on the
\* deny list) is answered with the error 'Path does not exist', not with a
\* success outcome, in permanent and in recoverable mode, and puts no
\* 'deleted' event on the queue.
C37_Step ==
    (/\ DeleteStep
     /\ abspath(resp'.req.path) \notin DenyList
     /\ ~exists(fs, abspath(resp'.req.path))) =>
        /\ resp'.status # 200
        /\ resp'.error = "Path does not exist"
        /\ queue' = queue

C37_MissingPathIsAnError == [][C37_Step]_vars

----------------------------------------------------------------------------
(* Properties of the categorizer: no bytes in two buckets *)

\* every directory of the tree can be listed, so no helper answer is used
AllListable == \A q \in DOMAIN fs : fs[q].readable /\ fs[q].statable

\* C38: no location contributes to more than one category bucket: the
\* 'System Data' measurement of ~/Library leaves out ~/Library/Developer,
\* which is counted as 'Other', so the categorized sum never counts the same
\* bytes twice and cannot exceed the bytes of the files measured.
C38_NoBytesInTwoBuckets ==
    (DiskInfoReturned /\ AllListable) =>
        /\ SizeOfBucket(Categorized, "System Data")
              = BytesBelow(Lib) - BytesBelow(LibDev)
        /\ SumSize(Categorized) <= VolumeBytes(fs)

----------------------------------------------------------------------------
(* Properties of scans on the shared pool *)

\* the tasks of thread t that have not ended
OpenTasks(t) ==
    {i \in 1..Len(pool.queue) : pool.queue[i].owner = t}
    \cup {r \in pool.running : r.task.owner = t}

\* only a level-0 coordinator adds to the work queue, and it adds the
\* entries of its root; a coordinator returns only when none of its tasks
\* is queued or running
C39_Step ==
    /\ Len(pool'.queue) > Len(pool.queue) =>
          \E t \in Threads :
              /\ pc[t].at = "idle" /\ pc'[t].at = "join"
              /\ pool'.queue = pool.queue
                    \o [i \in 1..Len(scandir(fs, pc'[t].path)) |->
                          pool'.queue[Len(pool.queue) + i]]
              /\ \A i \in 1..Len(scandir(fs, pc'[t].path)) :
                    /\ pool'.queue[Len(pool.queue) + i].entry
                          = scandir(fs, pc'[t].path)[i]
                    /\ pool'.queue[Len(pool.queue) + i].level = 0
    /\ \A t \in Threads :
          (pc[t].at = "join" /\ pc'[t].at = "idle") =>
              /\ OpenTasks(t) = {}
              /\ Len(pool.done[t]) = Len(scandir(fs, pc[t].path))

\* as_completed has yielded all the futures of t: the join is over and the
\* coordinator goes on, or has gone on, with the finalisation
JoinOver(t) == pc[t].at = "idle" \/ Len(pool.done[t]) = pc[t].n

\* C39: a level-0 scan hands only the root's entries to the shared pool and
\* a pool task hands nothing to it; so, every call returning, the tasks of
\* every scan complete and its join ends, whatever the number of concurrent
\* scans on the workers of the pool, and the coordinator finalises the root
\* only after all its tasks have completed.
C39_PoolScansComplete ==
    /\ [][C39_Step]_vars
    /\ \A t \in Threads : (pc[t].at = "join") ~> JoinOver(t)

\* a scan has returned while the other one waits, with every worker busy
\* and tasks still queued
C39_Witness ==
    /\ resp.op = "_scan"
    /\ \E t \in Threads : pc[t].at = "idle" /\ resp.thread = t
    /\ \E t \in Threads : pc[t].at = "join" /\ pc[t].depth = 2
    /\ Cardinality(pool.running) = PoolWorkers
    /\ pool.queue # <<>>

----------------------------------------------------------------------------
(* C40 *)

\* what a scan of the call's own arguments gives
OwnTree(r) == _scan(fs, abspath(r.path), r.depth, r.max_children, 0, NoOracle)

C40_Step ==
    (resp'.op = "scan_directory" /\ reqNo' = reqNo + 1) =>
        \E own \in {OwnTree(resp')} :
           /\ resp'.data = own
           /\ \A k \in DOMAIN cache :
                 /\ k \in DOMAIN cache'
                 /\ cache'[k] # cache[k] => cache[k][2] = own
           /\ \A k \in DOMAIN cache' \ DOMAIN cache : cache'[k][2] = own
           /\ Cardinality(DOMAIN cache' \ DOMAIN cache) <= 1

\* C40: calls of scan_directory that differ in path, depth or max_children
\* never share a cache entry, also for paths with underscores and digits:
\* a call is answered with the tree of its own arguments, and the only entry
\* it writes is a new one or the expired one of the same arguments.
C40_CallsShareNoEntry == [][C40_Step]_vars

\* the entries of (d, 1, 1) and (d_1, 1, 500) are both cached and the second
\* call of (d_1, 1, 500) is answered from the cache
C40_Witness ==
    /\ resp.op = "scan_directory"
    /\ ~resp.scanned
    /\ resp.path = D1 /\ resp.depth = 1 /\ resp.max_children = 500
    /\ <<"/", "Users", "/", "me", "/", "d", "_", "1", "_", "1">> \in DOMAIN cache
    /\ <<"/", "Users", "/", "me", "/", "d", "_", "1", "_", "1", "_", "5", "0", "0">>
          \in DOMAIN cache

====
